---- MODULE Spec2Model ----
(***************************************************************************)
(* A model of src/amp_processor.rs: the AMP Code request processor.        *)
(*                                                                         *)
(* Texts (paths, model names, host names) are TLA+ strings handled         *)
(* character by character with Len, SubSeq and \o, so that prefix,         *)
(* suffix, substring and lower-casing behave as the Rust str methods do.   *)
(* A request body is a record: empty bytes, bytes that are no JSON, or a   *)
(* JSON text, which is a JSON value together with a flag telling whether   *)
(* its bytes are serde_json's compact serialisation of that value.         *)
(* A JSON object is the sequence of its members in document order (the     *)
(* order serde_json's Map keeps and the code relies on).                   *)
(***************************************************************************)
EXTENDS Integers, Sequences, FiniteSets, TLC

VARIABLES
    pc,             \* position of the request in process_outgoing_request
    path,           \* inbound path
    headers,        \* inbound header names and values (a set of <<name, value>>)
    body,           \* inbound body bytes
    api_type,       \* result of detect_api_type
    llm_path,       \* result of extract_llm_path
    profiles,       \* the protocols a profile is configured for
    prefixed_body,  \* result of add_tool_prefix
    final_body,     \* body handed to the Claude adapter
    identity,       \* the identity pair computed for the request, or NoIdentity
    hash_calls,     \* number of digests computed for the request
    target_url,     \* the URL validate_url_security is given
    verdict,        \* what validate_url_security returned
    max_size,       \* read_response_with_limit: the ceiling
    stream,         \* the items the response stream has yet to yield
    consumed,       \* the items the response stream has yielded
    data_len,       \* data.len()
    read_result,    \* what read_response_with_limit returned
    query,          \* inbound query string
    tool,           \* result of detect_local_tool
    params,         \* the decoded body of a local-tool request
    tavily_api_key, \* whether the configuration holds a Tavily key
    queries,        \* handle_web_search: the query list
    max_results,    \* handle_web_search: max_results
    qi,             \* the search loop: index of the next query
    all_results,    \* the search loop: URLs of the results collected
    provider,       \* the provider searching, then the one reported
    log,            \* validations made and HTTP requests sent, in order
    result,         \* what the local tool returned
    reprefixed_body,\* add_tool_prefix applied to its own output
    brand_text,     \* a text given to sanitize_brand_text
    sanitized,      \* sanitize_brand_text(brand_text)
    resanitized,    \* sanitize_brand_text applied to its own output
    messages_a,     \* a messages value given to generate_session_uuid
    messages_b,     \* another one
    session_a,      \* the token of messages_a
    session_b,      \* the token of messages_b
    cleaned_body,   \* the Codex branch: the body it wrote, if it wrote one
    base_headers,   \* the headers of the request the protocol adapter built
    base_url,       \* the target URL of the request the protocol adapter built
    result_headers, \* the headers of the request process_outgoing_request returns
    result_url      \* its target URL

routeVars == <<path, headers, body, api_type, llm_path, profiles>>
bodyVars == <<prefixed_body, final_body, identity, hash_calls>>
guardVars == <<target_url, verdict>>
fetchVars == <<max_size, stream, consumed, data_len, read_result>>
searchVars == <<queries, max_results, qi, all_results, provider>>
toolVars == <<query, tool, params, tavily_api_key, log, result>>
pureVars == <<reprefixed_body, brand_text, sanitized, resanitized, messages_a, messages_b,
              session_a, session_b>>
forwardVars == <<cleaned_body, base_headers, base_url, result_headers, result_url>>
requestVars == <<routeVars, bodyVars, pureVars, forwardVars>>
localVars == <<guardVars, fetchVars, searchVars, toolVars>>

----------------------------------------------------------------------------
(* str: the methods of Rust's str the code uses.                           *)

\* char::to_lowercase on the ASCII letters
LowerTable ==
    "A" :> "a" @@ "B" :> "b" @@ "C" :> "c" @@ "D" :> "d" @@ "E" :> "e" @@ "F" :> "f" @@
    "G" :> "g" @@ "H" :> "h" @@ "I" :> "i" @@ "J" :> "j" @@ "K" :> "k" @@ "L" :> "l" @@
    "M" :> "m" @@ "N" :> "n" @@ "O" :> "o" @@ "P" :> "p" @@ "Q" :> "q" @@ "R" :> "r" @@
    "S" :> "s" @@ "T" :> "t" @@ "U" :> "u" @@ "V" :> "v" @@ "W" :> "w" @@ "X" :> "x" @@
    "Y" :> "y" @@ "Z" :> "z"

LowerCh(c) == IF c \in DOMAIN LowerTable THEN LowerTable[c] ELSE c

RECURSIVE to_lowercase(_)
to_lowercase(s) ==
    IF Len(s) = 0 THEN ""
    ELSE LowerCh(SubSeq(s, 1, 1)) \o to_lowercase(SubSeq(s, 2, Len(s)))

starts_with(s, p) == Len(p) <= Len(s) /\ SubSeq(s, 1, Len(p)) = p

ends_with(s, p) == Len(p) <= Len(s) /\ SubSeq(s, Len(s) - Len(p) + 1, Len(s)) = p

MatchAt(s, p, i) == i + Len(p) - 1 <= Len(s) /\ SubSeq(s, i, i + Len(p) - 1) = p

contains(s, p) == \E i \in 1..(Len(s) + 1) : MatchAt(s, p, i)

\* str::find: the 1-based position of the first occurrence of p in s, 0 for None
find(s, p) ==
    IF contains(s, p)
    THEN CHOOSE i \in 1..(Len(s) + 1) :
            MatchAt(s, p, i) /\ \A j \in 1..(i - 1) : ~MatchAt(s, p, j)
    ELSE 0

\* &s[i..] with i the 1-based position of its first character
StrFrom(s, i) == SubSeq(s, i, Len(s))

----------------------------------------------------------------------------
(* serde_json: values, and the bytes of a body.                            *)

JNull == [t |-> "null"]
JNum(n) == [t |-> "num", n |-> n]
JStr(s) == [t |-> "str", s |-> s]
JArr(items) == [t |-> "arr", items |-> items]
JObj(kv) == [t |-> "obj", kv |-> kv]
Member(k, v) == [k |-> k, v |-> v]

\* Option::None of a lookup
Absent == [t |-> "absent"]
\* Err of serde_json::from_slice
ParseError == [t |-> "error"]

Keys(kv) == {kv[i].k : i \in 1..Len(kv)}

\* Value::get with a string index: Some only on an object holding the key
Get(v, k) ==
    IF v.t = "obj" /\ k \in Keys(v.kv)
    THEN LET i == CHOOSE j \in 1..Len(v.kv) : v.kv[j].k = k IN v.kv[i].v
    ELSE Absent

IsStr(v) == v.t = "str"

EmptyBody == [kind |-> "empty"]
GarbageBody == [kind |-> "garbage"]
\* a JSON text: compact tells whether the bytes are serde_json's own output
JsonBody(val, compact) == [kind |-> "json", compact |-> compact, val |-> val]

from_slice(b) == IF b.kind = "json" THEN b.val ELSE ParseError

to_vec(val) == JsonBody(val, TRUE)

----------------------------------------------------------------------------
(* The protocol router.                                                    *)

AmpInternal == "AmpInternal"
Claude == "Claude"
Codex == "Codex"
Gemini == "Gemini"
ApiType == {AmpInternal, Claude, Codex, Gemini}
\* Option::None of detect_by_model
NoType == "None"

detect_by_model_gpt_first(b) ==
    IF b.kind = "empty" THEN NoType
    ELSE LET json == from_slice(b) IN
         IF json = ParseError THEN NoType
         ELSE LET m == Get(json, "model") IN
              IF ~IsStr(m) THEN NoType
              ELSE LET model == to_lowercase(m.s) IN
                   IF contains(model, "gpt") THEN Codex
                   ELSE IF contains(model, "gemini") THEN Gemini
                   ELSE IF contains(model, "claude") THEN Claude
                   ELSE NoType

detect_by_model(b) ==
    IF b.kind = "empty" THEN NoType
    ELSE LET json == from_slice(b) IN
         IF json = ParseError THEN NoType
         ELSE LET m == Get(json, "model") IN
              IF ~IsStr(m) THEN NoType
              ELSE LET model == to_lowercase(m.s) IN
                   IF contains(model, "gemini") THEN Gemini
                   ELSE IF contains(model, "claude") THEN Claude
                   ELSE IF contains(model, "gpt") THEN Codex
                   ELSE NoType

contains_key(h, name) == \E e \in h : e[1] = name

detect_api_type(p, h, b) ==
    LET path_lower == to_lowercase(p) IN
    IF starts_with(path_lower, "/api/provider/anthropic") THEN Claude
    ELSE IF starts_with(path_lower, "/api/provider/openai") THEN Codex
    ELSE IF starts_with(path_lower, "/api/provider/google") THEN Gemini
    ELSE IF starts_with(path_lower, "/api/") THEN AmpInternal
    ELSE IF contains(path_lower, "/messages") /\ ~contains(path_lower, "/chat/completions")
         THEN Claude
    ELSE IF \/ contains(path_lower, "/chat/completions")
            \/ contains(path_lower, "/responses")
            \/ ends_with(path_lower, "/completions")
         THEN Codex
    ELSE IF \/ contains(path_lower, "/v1beta")
            \/ contains(path_lower, ":generatecontent")
            \/ contains(path_lower, ":streamgeneratecontent")
         THEN Gemini
    ELSE IF contains_key(h, "anthropic-version") THEN Claude
    ELSE IF detect_by_model(b) # NoType THEN detect_by_model(b)
    ELSE Claude

PublisherPrefix == "/v1beta1/publishers/google/models/"

extract_llm_path_no_publisher(p) ==
    IF find(p, "/v1beta") > 0 THEN StrFrom(p, find(p, "/v1beta"))
    ELSE IF find(p, "/v1") > 0 THEN StrFrom(p, find(p, "/v1"))
    ELSE p

extract_llm_path(p) ==
    IF find(p, PublisherPrefix) > 0
    THEN "/v1beta/models/" \o StrFrom(p, find(p, PublisherPrefix) + Len(PublisherPrefix))
    ELSE IF find(p, "/v1beta") > 0 THEN StrFrom(p, find(p, "/v1beta"))
    ELSE IF find(p, "/v1") > 0 THEN StrFrom(p, find(p, "/v1"))
    ELSE p

----------------------------------------------------------------------------
(* The body transformer for the Claude protocol.                           *)

JTrue == [t |-> "bool", b |-> TRUE]

HasKey(v, k) == v.t = "obj" /\ k \in Keys(v.kv)

\* Map::insert / IndexMut on an object: an existing key keeps its place
Set(v, k, x) ==
    IF k \in Keys(v.kv)
    THEN JObj([i \in 1..Len(v.kv) |-> IF v.kv[i].k = k THEN Member(k, x) ELSE v.kv[i]])
    ELSE JObj(Append(v.kv, Member(k, x)))

CLAUDE_CODE_PREAMBLE == "You are Claude Code, Anthropic's official CLI for Claude."

TOOL_PREFIX == "mcp_"

WordAlphabet == "abcdefghijklmnopqrstuvwxyzABCDEFGHIJKLMNOPQRSTUVWXYZ0123456789_"

\* the characters the regex class \w holds
WordChars == {SubSeq(WordAlphabet, i, i) : i \in 1..Len(WordAlphabet)}

IsWordAt(s, i) == i >= 1 /\ i <= Len(s) /\ SubSeq(s, i, i) \in WordChars

\* the regex assertion \b just before the character at position i
WordBoundary(s, i) == IsWordAt(s, i - 1) # IsWordAt(s, i)

\* the texts (?i)opencode|amp(?:-?code)? matches, in the order the regex prefers them
BrandWords == <<"opencode", "amp-code", "ampcode", "amp">>

BrandMatches(s, sl, i, w) ==
    MatchAt(sl, w, i) /\ WordBoundary(s, i) /\ WordBoundary(s, i + Len(w))

\* the length of the match of BRAND_SANITIZE_RE that starts at position i, 0 for none
BrandMatchLen(s, sl, i) ==
    IF \E n \in 1..Len(BrandWords) : BrandMatches(s, sl, i, BrandWords[n])
    THEN LET n == CHOOSE m \in 1..Len(BrandWords) :
                    /\ BrandMatches(s, sl, i, BrandWords[m])
                    /\ \A l \in 1..(m - 1) : ~BrandMatches(s, sl, i, BrandWords[l])
         IN  Len(BrandWords[n])
    ELSE 0

RECURSIVE ReplaceBrands(_, _, _)
ReplaceBrands(s, sl, i) ==
    IF i > Len(s) THEN ""
    ELSE LET n == BrandMatchLen(s, sl, i) IN
         IF n > 0 THEN "Claude Code" \o ReplaceBrands(s, sl, i + n)
         ELSE SubSeq(s, i, i) \o ReplaceBrands(s, sl, i + 1)

\* Regex::replace in the place of replace_all
RECURSIVE ReplaceFirstBrand(_, _, _)
ReplaceFirstBrand(s, sl, i) ==
    IF i > Len(s) THEN ""
    ELSE LET n == BrandMatchLen(s, sl, i) IN
         IF n > 0 THEN "Claude Code" \o SubSeq(s, i + n, Len(s))
         ELSE SubSeq(s, i, i) \o ReplaceFirstBrand(s, sl, i + 1)

sanitize_brand_text_first_only(s) == ReplaceFirstBrand(s, to_lowercase(s), 1)

sanitize_brand_text(s) == ReplaceBrands(s, to_lowercase(s), 1)

EphemeralCacheControl == JObj(<<Member("type", JStr("ephemeral")), Member("ttl", JStr("5m"))>>)

normalize_cache_control(item) ==
    IF HasKey(item, "cache_control") THEN Set(item, "cache_control", EphemeralCacheControl)
    ELSE item

PreambleItem == JObj(<<Member("type", JStr("text")), Member("text", JStr(CLAUDE_CODE_PREAMBLE))>>)

\* one element of a system array: lines 238-245
SystemItem(item) ==
    LET n == normalize_cache_control(item) IN
    IF Get(n, "type") = JStr("text") /\ IsStr(Get(n, "text"))
    THEN Set(n, "text", JStr(sanitize_brand_text(Get(n, "text").s)))
    ELSE n

\* the system member: lines 234-274
SystemStep(json) ==
    LET system == Get(json, "system") IN
    IF system = Absent THEN Set(json, "system", JArr(<<PreambleItem>>))
    ELSE IF system.t = "arr" THEN
        LET items == [i \in 1..Len(system.items) |-> SystemItem(system.items[i])]
            already_prefixed ==
                /\ Len(items) > 0
                /\ Get(items[1], "type") = JStr("text")
                /\ Get(items[1], "text") = JStr(CLAUDE_CODE_PREAMBLE)
        IN  Set(json, "system",
                JArr(IF already_prefixed THEN items ELSE <<PreambleItem>> \o items))
    ELSE IF system.t = "str" THEN
        LET cleaned == sanitize_brand_text(system.s) IN
        Set(json, "system",
            JStr(IF starts_with(cleaned, CLAUDE_CODE_PREAMBLE) THEN cleaned
                 ELSE CLAUDE_CODE_PREAMBLE \o "\n" \o cleaned))
    ELSE json

PrefixName_always(item) ==
    LET name == Get(item, "name") IN
    IF IsStr(name) THEN Set(item, "name", JStr(TOOL_PREFIX \o name.s)) ELSE item

\* a tool name receives the prefix unless it carries it
PrefixName(item) ==
    LET name == Get(item, "name") IN
    IF IsStr(name) /\ ~starts_with(name.s, TOOL_PREFIX)
    THEN Set(item, "name", JStr(TOOL_PREFIX \o name.s))
    ELSE item

\* the tools member: lines 277-288
ToolsStep(json) ==
    LET tools == Get(json, "tools") IN
    IF tools # Absent /\ tools.t = "arr"
    THEN Set(json, "tools",
             JArr([i \in 1..Len(tools.items) |->
                      PrefixName(normalize_cache_control(tools.items[i]))]))
    ELSE json

ContentItem(item) ==
    LET n == normalize_cache_control(item) IN
    IF Get(n, "type") = JStr("tool_use") THEN PrefixName(n) ELSE n

MessageStep(msg) ==
    LET content == Get(msg, "content") IN
    IF content # Absent /\ content.t = "arr"
    THEN Set(msg, "content",
             JArr([i \in 1..Len(content.items) |-> ContentItem(content.items[i])]))
    ELSE msg

\* the messages member: lines 291-316
MessagesStep(json) ==
    LET messages == Get(json, "messages") IN
    IF messages # Absent /\ messages.t = "arr"
    THEN Set(json, "messages",
             JArr([i \in 1..Len(messages.items) |-> MessageStep(messages.items[i])]))
    ELSE json

\* the outcome of a panic (json["system"] = ... on a value that is no object)
Panicked == [kind |-> "panic"]

DeclaresHaiku(json) ==
    IsStr(Get(json, "model")) /\ contains(to_lowercase(Get(json, "model").s), "haiku")

add_tool_prefix_ignoring_haiku(b) ==
    IF b.kind = "empty" THEN b
    ELSE LET json == from_slice(b) IN
         IF json = ParseError THEN b
         ELSE IF json.t = "null" THEN to_vec(JObj(<<Member("system", JArr(<<PreambleItem>>))>>))
         ELSE IF json.t # "obj" THEN Panicked
         ELSE to_vec(MessagesStep(ToolsStep(SystemStep(json))))

add_tool_prefix(b) ==
    IF b.kind = "empty" THEN b
    ELSE LET json == from_slice(b) IN
         IF json = ParseError THEN b
         ELSE IF DeclaresHaiku(json) THEN b
         ELSE IF json.t = "null" THEN to_vec(JObj(<<Member("system", JArr(<<PreambleItem>>))>>))
         ELSE IF json.t # "obj" THEN Panicked
         ELSE to_vec(MessagesStep(ToolsStep(SystemStep(json))))

----------------------------------------------------------------------------
(* The identity generator.                                                 *)

\* SHA-256 as an injective function of its input, in lower-case hex
Sha256Hex(input) == "sha256(" \o input \o ")"

HeaderValue(h, name, default) ==
    IF \E e \in h : e[1] = name THEN (CHOOSE e \in h : e[1] = name)[2] ELSE default

generate_user_hash(h, api_key) ==
    Sha256Hex(api_key \o ":" \o HeaderValue(h, "user-agent", "unknown"))

RECURSIVE JoinStrings(_, _)
JoinStrings(parts, sep) ==
    IF Len(parts) = 0 THEN ""
    ELSE IF Len(parts) = 1 THEN parts[1]
    ELSE parts[1] \o sep \o JoinStrings(Tail(parts), sep)

IsTextItem(item) == Get(item, "type") = JStr("text") /\ IsStr(Get(item, "text"))

TextOf(item) == Get(item, "text").s

\* the text of one message, Absent when filter_map drops the message
MessageText(m) ==
    LET c == Get(m, "content") IN
    IF c = Absent THEN Absent
    ELSE IF c.t = "str" THEN c
    ELSE IF c.t = "arr"
         THEN LET texts == SelectSeq(c.items, IsTextItem)
              IN  JStr(JoinStrings([i \in 1..Len(texts) |-> TextOf(texts[i])], ""))
    ELSE Absent

IsPresent(v) == v # Absent

\* a digest of the first four messages
SessionContent_first_four(messages) ==
    IF messages.t # "arr" THEN ""
    ELSE LET first == SubSeq(messages.items, 1, IF Len(messages.items) < 4
                                                   THEN Len(messages.items) ELSE 4)
             texts == SelectSeq([i \in 1..Len(first) |-> MessageText(first[i])], IsPresent)
         IN  JoinStrings([i \in 1..Len(texts) |-> texts[i].s], "|")

\* the text generate_session_uuid digests: lines 823-852
SessionContent(messages) ==
    IF messages.t # "arr" THEN ""
    ELSE LET first == SubSeq(messages.items, 1, IF Len(messages.items) < 3
                                                   THEN Len(messages.items) ELSE 3)
             texts == SelectSeq([i \in 1..Len(first) |-> MessageText(first[i])], IsPresent)
         IN  JoinStrings([i \in 1..Len(texts) |-> texts[i].s], "|")

\* the 8-4-4-4-12 grouping of the first 32 hex digits of a digest
UuidShape(hex) == "uuid(" \o hex \o ")"

\* Uuid::new_v4: the values a random token may take
RandomUuids == {"uuid4-a", "uuid4-b"}

generate_session_uuid(messages, random) ==
    IF SessionContent(messages) = "" THEN random
    ELSE UuidShape(Sha256Hex(SessionContent(messages)))

\* digests computed by generate_session_uuid
SessionDigests(messages) == IF SessionContent(messages) = "" THEN 0 ELSE 1

UserId(user_hash, session_uuid) == "user_" \o user_hash \o "_account__session_" \o session_uuid

field_order ==
    <<"model", "system", "messages", "tools", "metadata", "max_tokens", "temperature",
      "top_p", "top_k", "thinking", "stream">>

\* the metadata member inject_metadata_with_order writes: lines 901-914
InjectedMetadata(val, user_id) ==
    IF val = Absent THEN JObj(<<Member("user_id", JStr(user_id))>>)
    ELSE LET meta == IF val.t = "obj" THEN val ELSE JObj(<<>>) IN
         IF HasKey(meta, "user_id") THEN meta ELSE Set(meta, "user_id", JStr(user_id))

\* the loop over field_order: lines 899-915
RECURSIVE InsertKnown(_, _, _, _)
InsertKnown(obj, user_id, i, ordered) ==
    IF i > Len(field_order) THEN ordered
    ELSE LET key == field_order[i]
             val == Get(obj, key)
         IN  IF key = "metadata"
             THEN InsertKnown(obj, user_id, i + 1,
                              Set(ordered, key, InjectedMetadata(val, user_id)))
             ELSE IF val # Absent
             THEN InsertKnown(obj, user_id, i + 1, Set(ordered, key, val))
             ELSE InsertKnown(obj, user_id, i + 1, ordered)

\* the loop over the remaining members: lines 918-922
RECURSIVE InsertOthers(_, _, _)
InsertOthers(obj, i, ordered) ==
    IF i > Len(obj.kv) THEN ordered
    ELSE IF obj.kv[i].k \in Keys(ordered.kv)
         THEN InsertOthers(obj, i + 1, ordered)
         ELSE InsertOthers(obj, i + 1, Set(ordered, obj.kv[i].k, obj.kv[i].v))

\* Err of inject_metadata_with_order
InjectError == [kind |-> "inject_error"]

inject_metadata_with_order_dropping_others(b, user_id) ==
    LET json == from_slice(b) IN
    IF json = ParseError \/ json.t # "obj" THEN InjectError
    ELSE to_vec(InsertKnown(json, user_id, 1, JObj(<<>>)))

inject_metadata_with_order(b, user_id) ==
    LET json == from_slice(b) IN
    IF json = ParseError \/ json.t # "obj" THEN InjectError
    ELSE to_vec(InsertOthers(json, 1, InsertKnown(json, user_id, 1, JObj(<<>>))))

has_user_id_never(json) == FALSE

\* has_user_id: lines 988-993
has_user_id(json) ==
    LET u == Get(Get(json, "metadata"), "user_id") IN IsStr(u) /\ u.s # ""

----------------------------------------------------------------------------
(* The security guard.  A URL is given by what Url::parse makes of it: the *)
(* scheme, the userinfo and the host, which is an IPv4 address (its four   *)
(* octets), an IPv6 address (its eight segments and its RFC 5952 text), a  *)
(* domain name, or missing.                                                *)

V4Host(o) == [kind |-> "ipv4", o |-> o, seg |-> <<>>, text |-> ""]
V6Host(seg, text) == [kind |-> "ipv6", o |-> <<>>, seg |-> seg, text |-> text]
DomainHost(name) == [kind |-> "domain", o |-> <<>>, seg |-> <<>>, text |-> name]
NoHost == [kind |-> "none", o |-> <<>>, seg |-> <<>>, text |-> ""]

Url(scheme, username, has_password, host) ==
    [parses |-> TRUE, scheme |-> scheme, username |-> username,
     has_password |-> has_password, host |-> host]

\* a text Url::parse fails on
BadUrl == [parses |-> FALSE, scheme |-> "", username |-> "", has_password |-> FALSE,
           host |-> NoHost]

DottedQuad(o) ==
    ToString(o[1]) \o "." \o ToString(o[2]) \o "." \o ToString(o[3]) \o "." \o ToString(o[4])

\* Url::host_str: an IPv6 address is given between [ and ], a domain lower-cased
host_str(h) ==
    IF h.kind = "ipv4" THEN DottedQuad(h.o)
    ELSE IF h.kind = "ipv6" THEN "[" \o h.text \o "]"
    ELSE to_lowercase(h.text)

\* the octets of the first bytes of the addresses the model draws
FirstOctets == {0, 8, 10, 93, 100, 127, 169, 172, 192, 223, 224, 239, 240, 255}
SecondOctets == {0, 15, 16, 31, 32, 63, 64, 127, 128, 168, 184, 253, 254, 255}
LastOctets == {<<0, 0>>, <<0, 1>>, <<0, 5>>, <<216, 34>>, <<255, 255>>}

Ipv4Addrs == {<<a, b, c[1], c[2]>> : a \in FirstOctets, b \in SecondOctets, c \in LastOctets}

Ipv6Hosts ==
    {V6Host(<<0, 0, 0, 0, 0, 0, 0, 1>>, "::1"),
     V6Host(<<0, 0, 0, 0, 0, 0, 0, 0>>, "::"),
     V6Host(<<65282, 0, 0, 0, 0, 0, 0, 1>>, "ff02::1"),
     V6Host(<<64512, 0, 0, 0, 0, 0, 0, 1>>, "fc00::1"),
     V6Host(<<64786, 13398, 0, 0, 0, 0, 0, 1>>, "fd12:3456::1"),
     V6Host(<<65152, 0, 0, 0, 0, 0, 0, 1>>, "fe80::1"),
     V6Host(<<65215, 0, 0, 0, 0, 0, 0, 1>>, "febf::1"),
     V6Host(<<65216, 0, 0, 0, 0, 0, 0, 1>>, "fec0::1"),
     V6Host(<<9734, 18176, 18176, 0, 0, 0, 0, 4369>>, "2606:4700:4700::1111"),
     V6Host(<<8193, 18528, 18528, 0, 0, 0, 0, 34952>>, "2001:4860:4860::8888")}

\* the result of str::parse::<IpAddr>, by the text it accepts: a dotted quad,
\* or the text of an IPv6 address, which holds no bracket
Ipv4ByText == [t \in {DottedQuad(o) : o \in Ipv4Addrs} |->
                  V4Host(CHOOSE o \in Ipv4Addrs : DottedQuad(o) = t)]

Ipv6ByText == [t \in {h.text : h \in Ipv6Hosts} |-> CHOOSE h \in Ipv6Hosts : h.text = t]

parse_ip(text) ==
    IF text \in DOMAIN Ipv4ByText THEN Ipv4ByText[text]
    ELSE IF text \in DOMAIN Ipv6ByText THEN Ipv6ByText[text]
    ELSE NoHost

\* the bitwise and of two naturals
RECURSIVE BitAnd(_, _)
BitAnd(a, b) ==
    IF a = 0 \/ b = 0 THEN 0
    ELSE (a % 2) * (b % 2) + 2 * BitAnd(a \div 2, b \div 2)

\* Ipv4Addr::is_loopback, is_private, is_link_local, is_broadcast, is_unspecified,
\* is_multicast
v4_is_loopback(o) == o[1] = 127
v4_is_private(o) ==
    \/ o[1] = 10
    \/ o[1] = 172 /\ o[2] >= 16 /\ o[2] <= 31
    \/ o[1] = 192 /\ o[2] = 168
v4_is_link_local(o) == o[1] = 169 /\ o[2] = 254
v4_is_broadcast(o) == o = <<255, 255, 255, 255>>
v4_is_unspecified(o) == o = <<0, 0, 0, 0>>
v4_is_multicast(o) == o[1] >= 224 /\ o[1] <= 239

\* Ipv6Addr::is_loopback, is_unspecified, is_multicast
v6_is_loopback(seg) == seg = <<0, 0, 0, 0, 0, 0, 0, 1>>
v6_is_unspecified(seg) == seg = <<0, 0, 0, 0, 0, 0, 0, 0>>
v6_is_multicast(seg) == BitAnd(seg[1], 65280) = 65280

is_private_ip(ip) ==
    IF ip.kind = "ipv4"
    THEN \/ v4_is_loopback(ip.o)
         \/ v4_is_private(ip.o)
         \/ v4_is_link_local(ip.o)
         \/ v4_is_broadcast(ip.o)
         \/ v4_is_unspecified(ip.o)
         \/ v4_is_multicast(ip.o)
         \/ ip.o[1] = 100 /\ BitAnd(ip.o[2], 192) = 64
    ELSE \/ v6_is_loopback(ip.seg)
         \/ v6_is_unspecified(ip.seg)
         \/ v6_is_multicast(ip.seg)
         \/ BitAnd(ip.seg[1], 65024) = 64512
         \/ BitAnd(ip.seg[1], 65472) = 65152

\* the verdict of validate_url_security: "ok", or the error it returns
validate_url_security(u) ==
    IF ~u.parses THEN "parse_error"
    ELSE IF u.scheme \notin {"http", "https"} THEN "unsupported_scheme"
    ELSE IF u.username # "" \/ u.has_password THEN "userinfo"
    ELSE IF u.host.kind = "none" THEN "no_host"
    ELSE LET host == host_str(u.host)
             ip == parse_ip(host)
         IN  IF ip # NoHost
             THEN IF is_private_ip(ip) THEN "private_ip" ELSE "ok"
             ELSE LET host_lower == to_lowercase(host) IN
                  IF \/ host_lower = "localhost"
                     \/ ends_with(host_lower, ".local")
                     \/ ends_with(host_lower, ".internal")
                     \/ ends_with(host_lower, ".localhost")
                  THEN "private_domain"
                  ELSE "ok"

----------------------------------------------------------------------------
(* Inputs of the router's specification.                                   *)

PathHeads ==
    {"", "/api/provider/anthropic", "/api/provider/openai", "/api/provider/google",
     "/API/Provider/OpenAI", "/api/provider/other", "/api/internal", "/api", "/proxy"}

PathMids ==
    {"", "/v1", "/V1", "/v1beta", "/v1beta1/publishers/google/models/m", "/x/v1"}

PathTails ==
    {"", "/messages", "/Messages", "/chat/completions", "/messages/chat/completions",
     "/responses", "/completions", "/completions/x", "/models/m:generateContent",
     "/m:streamGenerateContent", "/models"}

RoutePaths == {h \o m \o t : h \in PathHeads, m \in PathMids, t \in PathTails}

ModelNames ==
    {"gemini-2.0-flash", "claude-sonnet-4", "gpt-4o", "GPT-4o", "Claude-3-Opus",
     "gpt-claude", "claude-gemini", "llama-3"}

RouteBodies ==
    {EmptyBody, GarbageBody,
     JsonBody(JArr(<<JStr("gpt-4o")>>), TRUE),
     JsonBody(JObj(<<Member("messages", JArr(<<>>))>>), TRUE),
     JsonBody(JObj(<<Member("model", JNum(4))>>), TRUE)}
    \cup {JsonBody(JObj(<<Member("model", JStr(m))>>), TRUE) : m \in ModelNames}

RouteHeaders ==
    {{<<"user-agent", "amp/1.0">>},
     {<<"user-agent", "amp/1.0">>, <<"anthropic-version", "2023-06-01">>}}

NoIdentity == [fingerprint |-> "", session |-> ""]

AllProfiles == {Claude, Codex, Gemini}

\* the credential of the Claude profile
ClaudeApiKey == "sk-ant-key"

BodyIdle ==
    /\ prefixed_body = EmptyBody
    /\ final_body = EmptyBody
    /\ identity = NoIdentity
    /\ hash_calls = 0

\* Option
None == [some |-> FALSE]
Some(v) == [some |-> TRUE, v |-> v]

NoParams == [json_ok |-> FALSE, url |-> None, objective |-> None, searchQueries |-> None,
             maxResults |-> None]

NoResult ==
    [ok |-> FALSE, err |-> "", target_url |-> "", headers |-> {}, provider |-> "",
     results |-> <<>>]

GuardIdle == target_url = BadUrl /\ verdict = "none"

FetchIdle ==
    /\ max_size = 0
    /\ stream = <<>>
    /\ consumed = <<>>
    /\ data_len = 0
    /\ read_result = "none"

SearchIdle ==
    /\ queries = <<>>
    /\ max_results = 0
    /\ qi = 0
    /\ all_results = <<>>
    /\ provider = ""

ToolIdle ==
    /\ query = None
    /\ tool = None
    /\ params = NoParams
    /\ tavily_api_key = FALSE
    /\ log = <<>>
    /\ result = NoResult

LocalIdle == GuardIdle /\ FetchIdle /\ SearchIdle /\ ToolIdle

PureIdle ==
    /\ reprefixed_body = EmptyBody
    /\ brand_text = ""
    /\ sanitized = ""
    /\ resanitized = ""
    /\ messages_a = JNull
    /\ messages_b = JNull
    /\ session_a = ""
    /\ session_b = ""

ForwardIdle ==
    /\ cleaned_body = None
    /\ base_headers = {}
    /\ base_url = ""
    /\ result_headers = {}
    /\ result_url = ""

RequestIdle ==
    /\ path = "/"
    /\ headers = {}
    /\ body = EmptyBody
    /\ profiles = AllProfiles
    /\ api_type = NoType
    /\ llm_path = ""
    /\ BodyIdle
    /\ PureIdle
    /\ ForwardIdle

InitRoute ==
    /\ pc = "start"
    /\ path \in RoutePaths
    /\ headers \in RouteHeaders
    /\ body \in RouteBodies
    /\ profiles \in {AllProfiles, {Gemini}}
    /\ api_type = NoType
    /\ llm_path = ""
    /\ BodyIdle
    /\ LocalIdle
    /\ ForwardIdle
    /\ PureIdle

----------------------------------------------------------------------------
(* Inputs of the Claude body transformer's specification.                  *)

\* the largest number of members of an inbound JSON object
MaxKeys == 3

TextItem(text) == JObj(<<Member("type", JStr("text")), Member("text", JStr(text))>>)

OneHourCacheControl == JObj(<<Member("type", JStr("ephemeral")), Member("ttl", JStr("1h"))>>)

MemberValues(k) ==
    CASE k = "model" -> {JStr("claude-sonnet-4"), JStr("Claude-3-5-Haiku")}
      [] k = "system" ->
            {JStr("You are Amp, an OpenCode agent."),
             JArr(<<Set(TextItem("Use amp-code."), "cache_control", OneHourCacheControl)>>)}
      [] k = "messages" ->
            {JArr(<<>>),
             JArr(<<JObj(<<Member("role", JStr("user")), Member("content", JStr("hi"))>>),
                    JObj(<<Member("role", JStr("assistant")),
                           Member("content",
                                  JArr(<<TextItem("ok"),
                                         JObj(<<Member("type", JStr("tool_use")),
                                                Member("name", JStr("Read"))>>)>>))>>)>>)}
      [] k = "tools" ->
            {JArr(<<JObj(<<Member("name", JStr("Read")),
                           Member("cache_control", OneHourCacheControl)>>),
                    JObj(<<Member("name", JStr("mcp_Grep"))>>)>>)}
      [] k = "metadata" ->
            {JObj(<<Member("user_id", JStr("x"))>>),
             JObj(<<Member("user_id", JStr(""))>>),
             JObj(<<Member("user_id", JNull)>>),
             JObj(<<Member("trace", JStr("t"))>>),
             JStr("m")}
      [] k = "stream" -> {JTrue}
      [] k = "foo" -> {JNum(1)}
      [] k = "bar" -> {JNum(2)}

BodyKeys == {"model", "system", "messages", "tools", "metadata", "stream", "foo", "bar"}

AllMembers == UNION {{Member(k, v) : v \in MemberValues(k)} : k \in BodyKeys}

\* the member lists of at most n members with distinct keys
RECURSIVE MemberSeqs(_)
MemberSeqs(n) ==
    IF n = 0 THEN {<<>>}
    ELSE LET shorter == MemberSeqs(n - 1) IN
         shorter \cup
         UNION {{Append(kv, m) : m \in {x \in AllMembers : x.k \notin Keys(kv)}} :
                kv \in {y \in shorter : Len(y) = n - 1}}

ClaudeBodies ==
    {EmptyBody, GarbageBody, JsonBody(JNull, TRUE), JsonBody(JArr(<<JNum(1)>>), TRUE),
     JsonBody(JStr("claude"), FALSE)}
    \cup {JsonBody(JObj(kv), c) : kv \in MemberSeqs(MaxKeys), c \in BOOLEAN}

InitClaude ==
    /\ pc = "start"
    /\ path = "/api/provider/anthropic/v1/messages"
    /\ headers = {<<"user-agent", "amp/1.0">>}
    /\ body \in ClaudeBodies
    /\ profiles = AllProfiles
    /\ api_type = NoType
    /\ llm_path = ""
    /\ BodyIdle
    /\ LocalIdle
    /\ ForwardIdle
    /\ PureIdle

----------------------------------------------------------------------------
(* process_outgoing_request: classification and path rewriting.            *)

Classify ==
    /\ pc = "start"
    /\ api_type' = detect_api_type(path, headers, body)
    /\ pc' = "classified"
    /\ UNCHANGED <<path, headers, body, llm_path, profiles>>
    /\ UNCHANGED bodyVars
    /\ UNCHANGED localVars
    /\ UNCHANGED <<pureVars, forwardVars>>

\* forward_to_amp: the internal API receives the original path and body
ForwardToAmp ==
    /\ pc = "classified"
    /\ api_type = AmpInternal
    /\ pc' = "forwarded_amp"
    /\ UNCHANGED routeVars
    /\ UNCHANGED bodyVars
    /\ UNCHANGED localVars
    /\ UNCHANGED <<pureVars, forwardVars>>

RewritePath ==
    /\ pc = "classified"
    /\ api_type # AmpInternal
    /\ llm_path' = extract_llm_path(path)
    /\ pc' = "routed"
    /\ UNCHANGED <<path, headers, body, api_type, profiles>>
    /\ UNCHANGED bodyVars
    /\ UNCHANGED localVars
    /\ UNCHANGED <<pureVars, forwardVars>>

\* ok_or_else on the profile of the chosen protocol
MissingProfile ==
    /\ pc = "routed"
    /\ api_type \notin profiles
    /\ pc' = "config_error"
    /\ UNCHANGED routeVars
    /\ UNCHANGED bodyVars
    /\ UNCHANGED localVars
    /\ UNCHANGED <<pureVars, forwardVars>>

----------------------------------------------------------------------------
(* process_outgoing_request: the Claude branch.                            *)

\* line 984
ClaudePrefix ==
    /\ pc = "routed"
    /\ api_type = Claude
    /\ Claude \in profiles
    /\ prefixed_body' = add_tool_prefix(body)
    /\ pc' = IF add_tool_prefix(body) = Panicked THEN "panicked" ELSE "prefixed"
    /\ UNCHANGED routeVars
    /\ UNCHANGED <<final_body, identity, hash_calls>>
    /\ UNCHANGED localVars
    /\ UNCHANGED <<pureVars, forwardVars>>

\* the body and the identity pair of lines 987-1013, for one random token
FinalBody(random) ==
    LET json == from_slice(prefixed_body) IN
    IF json = ParseError \/ has_user_id(json)
    THEN [body |-> prefixed_body, identity |-> NoIdentity, digests |-> 0]
    ELSE LET user_hash == generate_user_hash(headers, ClaudeApiKey)
             messages == IF json.t = "null" THEN JNull
                         ELSE IF Get(json, "messages") = Absent THEN JNull
                         ELSE Get(json, "messages")
             session_uuid == generate_session_uuid(messages, random)
             injected == inject_metadata_with_order(prefixed_body,
                                                    UserId(user_hash, session_uuid))
         IN  [body |-> IF injected = InjectError THEN prefixed_body ELSE injected,
              identity |-> [fingerprint |-> user_hash, session |-> session_uuid],
              digests |-> 1 + SessionDigests(messages)]

\* lines 987-1024: the body is handed to the Claude adapter
ClaudeIdentity ==
    /\ pc = "prefixed"
    /\ \E random \in RandomUuids :
          /\ final_body' = FinalBody(random).body
          /\ identity' = FinalBody(random).identity
          /\ hash_calls' = FinalBody(random).digests
    /\ pc' = "adapter"
    /\ UNCHANGED routeVars
    /\ UNCHANGED prefixed_body
    /\ UNCHANGED localVars
    /\ UNCHANGED <<pureVars, forwardVars>>

vars == <<pc, requestVars, localVars>>

NextRoute == Classify \/ ForwardToAmp \/ RewritePath \/ MissingProfile

SpecRoute == InitRoute /\ [][NextRoute]_vars

NextClaude == Classify \/ RewritePath \/ ClaudePrefix \/ ClaudeIdentity

SpecClaude == InitClaude /\ [][NextClaude]_vars

----------------------------------------------------------------------------
(* The router's claims.                                                    *)

Classified == pc # "start"

ProviderPrefixed(pl) ==
    \/ starts_with(pl, "/api/provider/anthropic")
    \/ starts_with(pl, "/api/provider/openai")
    \/ starts_with(pl, "/api/provider/google")

Rule2(pl) == ~ProviderPrefixed(pl) /\ starts_with(pl, "/api/")

PastRule2(pl) == ~ProviderPrefixed(pl) /\ ~starts_with(pl, "/api/")

Rule3(pl) ==
    PastRule2(pl) /\ contains(pl, "/messages") /\ ~contains(pl, "/chat/completions")

Rule4(pl) ==
    /\ PastRule2(pl) /\ ~Rule3(pl)
    /\ \/ contains(pl, "/chat/completions")
       \/ contains(pl, "/responses")
       \/ ends_with(pl, "/completions")

Rule5(pl) ==
    /\ PastRule2(pl) /\ ~Rule3(pl) /\ ~Rule4(pl)
    /\ \/ contains(pl, "/v1beta")
       \/ contains(pl, ":generatecontent")
       \/ contains(pl, ":streamgeneratecontent")

Rule6(pl) ==
    /\ PastRule2(pl) /\ ~Rule3(pl) /\ ~Rule4(pl) /\ ~Rule5(pl)
    /\ \E e \in headers : e[1] = "anthropic-version"

PastRule6(pl) == PastRule2(pl) /\ ~Rule3(pl) /\ ~Rule4(pl) /\ ~Rule5(pl) /\ ~Rule6(pl)

\* the lower-cased model name the body declares, "" when it declares none
DeclaredModel ==
    IF body.kind = "json" /\ body.val.t = "obj"
       /\ \E i \in 1..Len(body.val.kv) : body.val.kv[i].k = "model" /\ body.val.kv[i].v.t = "str"
    THEN LET i == CHOOSE j \in 1..Len(body.val.kv) : body.val.kv[j].k = "model"
         IN  to_lowercase(body.val.kv[i].v.s)
    ELSE ""

\* the target the model name alone selects
ByModel(m) ==
    IF contains(m, "gemini") THEN Gemini
    ELSE IF contains(m, "claude") THEN Claude
    ELSE IF contains(m, "gpt") THEN Codex
    ELSE Claude

\* C5: detect_api_type always returns one of the four targets, and the target
\* is the one of the first rule of the ordered cascade that matches the
\* lower-cased path, the headers and the body's model; with no rule matching
\* (an empty, malformed or model-less body included) it is Claude.
C5_CascadeFirstMatch ==
    Classified =>
        LET pl == to_lowercase(path) IN
        /\ api_type \in ApiType
        /\ starts_with(pl, "/api/provider/anthropic") => api_type = Claude
        /\ starts_with(pl, "/api/provider/openai") => api_type = Codex
        /\ starts_with(pl, "/api/provider/google") => api_type = Gemini
        /\ Rule2(pl) => api_type = AmpInternal
        /\ Rule3(pl) => api_type = Claude
        /\ Rule4(pl) => api_type = Codex
        /\ Rule5(pl) => api_type = Gemini
        /\ Rule6(pl) => api_type = Claude
        /\ PastRule6(pl) => api_type = ByModel(DeclaredModel)

\* a request that only the body's model classifies, the model naming two families
C5_Witness ==
    /\ Classified
    /\ PastRule6(to_lowercase(path))
    /\ DeclaredModel = "gpt-claude"
    /\ api_type = Claude

IsSuffixOf(s, t) == ends_with(t, s)

\* C6 as stated: every path classified by its provider prefix is rewritten to
\* the protocol path (a suffix of the path beginning with /v1, or the short
\* form of a publisher path) and never still begins with /api/provider/.
C6_AlwaysStripped ==
    (pc = "routed" /\ ProviderPrefixed(to_lowercase(path))) =>
        /\ ~starts_with(to_lowercase(llm_path), "/api/provider/")
        /\ starts_with(llm_path, "/v1")

\* C6 as amended: a provider-prefixed path holding the publisher shape becomes
\* /v1beta/models/ followed by what follows the shape; another one holding
\* "/v1" (in this exact case) becomes its suffix from the first "/v1beta", or
\* with none from the first "/v1", and so begins with /v1 and not with
\* /api/provider/; a path holding no "/v1" is handed on unchanged.
C6_StrippedWhenV1Present ==
    (pc = "routed" /\ ProviderPrefixed(to_lowercase(path))) =>
        /\ contains(path, PublisherPrefix) =>
              /\ starts_with(llm_path, "/v1beta/models/")
              /\ ~starts_with(llm_path, "/v1beta/models/publishers")
              /\ \E i \in 1..Len(path) :
                    /\ MatchAt(path, PublisherPrefix, i)
                    /\ llm_path = "/v1beta/models/" \o StrFrom(path, i + Len(PublisherPrefix))
        /\ (contains(path, "/v1") /\ ~contains(path, PublisherPrefix)) =>
              /\ IsSuffixOf(llm_path, path)
              /\ starts_with(llm_path, "/v1")
              /\ contains(path, "/v1beta") => starts_with(llm_path, "/v1beta")
              /\ Len(llm_path) < Len(path)
        /\ contains(path, "/v1") => ~starts_with(to_lowercase(llm_path), "/api/provider/")
        /\ ~contains(path, "/v1") => llm_path = path

C6_Witness ==
    /\ pc = "routed"
    /\ path = "/api/provider/google/v1beta1/publishers/google/models/m/m:streamGenerateContent"
    /\ api_type = Gemini
    /\ llm_path = "/v1beta/models/m/m:streamGenerateContent"

----------------------------------------------------------------------------
(* The Claude body transformer's claims.                                   *)

InboundObject == body.kind = "json" /\ body.val.t = "obj"

InboundMember(k) ==
    LET i == CHOOSE j \in 1..Len(body.val.kv) : body.val.kv[j].k = k IN body.val.kv[i].v

InboundHas(k) == InboundObject /\ \E j \in 1..Len(body.val.kv) : body.val.kv[j].k = k

InboundHaiku ==
    /\ InboundHas("model")
    /\ InboundMember("model").t = "str"
    /\ contains(to_lowercase(InboundMember("model").s), "haiku")

\* the inbound metadata.user_id, Absent when the body carries none
InboundUserId ==
    IF InboundHas("metadata") /\ InboundMember("metadata").t = "obj"
       /\ \E j \in 1..Len(InboundMember("metadata").kv) :
              InboundMember("metadata").kv[j].k = "user_id"
    THEN LET kv == InboundMember("metadata").kv
             i == CHOOSE j \in 1..Len(kv) : kv[j].k = "user_id"
         IN  kv[i].v
    ELSE Absent

InboundCarriesUserId == InboundUserId.t = "str" /\ InboundUserId.s # ""

AtAdapter == pc = "adapter" /\ api_type = Claude

\* the member k of the body handed to the adapter, Absent when it has none
OutboundMember(k) ==
    IF final_body.kind = "json" /\ final_body.val.t = "obj"
       /\ \E j \in 1..Len(final_body.val.kv) : final_body.val.kv[j].k = k
    THEN LET i == CHOOSE j \in 1..Len(final_body.val.kv) : final_body.val.kv[j].k = k
         IN  final_body.val.kv[i].v
    ELSE Absent

OutboundUserId ==
    IF OutboundMember("metadata").t = "obj"
       /\ \E j \in 1..Len(OutboundMember("metadata").kv) :
              OutboundMember("metadata").kv[j].k = "user_id"
    THEN LET kv == OutboundMember("metadata").kv
             i == CHOOSE j \in 1..Len(kv) : kv[j].k = "user_id"
         IN  kv[i].v
    ELSE Absent

\* C7 as stated: a body declaring a haiku model reaches the Claude adapter
\* byte-identical to the inbound body.
C7_HaikuByteIdentical == (AtAdapter /\ InboundHaiku) => final_body = body

\* C7 as amended: for a body declaring a haiku model add_tool_prefix returns
\* the inbound bytes, and every member other than metadata reaches the adapter
\* with its inbound value (no sanitization, preamble, cache_control
\* normalization or tool prefix); the body handed on is byte-identical to the
\* inbound one when that one carries a non-empty string metadata.user_id, and
\* otherwise identity injection has rewritten it: it is serde_json's
\* serialisation of an object holding the inbound keys and metadata, which
\* differs from the inbound body whenever that one has no metadata member.
C7_HaikuSkipsPrefixOnly ==
    InboundHaiku =>
        /\ pc \in {"prefixed", "adapter"} => prefixed_body = body
        /\ AtAdapter =>
              /\ \A k \in BodyKeys \ {"metadata"} :
                    OutboundMember(k) = (IF InboundHas(k) THEN InboundMember(k) ELSE Absent)
              /\ InboundCarriesUserId => final_body = body
              /\ ~InboundCarriesUserId =>
                    /\ final_body.compact
                    /\ Keys(final_body.val.kv) = Keys(body.val.kv) \cup {"metadata"}
                    /\ identity # NoIdentity
                    /\ ~InboundHas("metadata") => final_body # body

C7_Witness ==
    /\ AtAdapter
    /\ InboundHaiku
    /\ ~InboundHas("metadata")
    /\ InboundHas("tools")
    /\ final_body # body
    /\ OutboundUserId.t = "str"

\* C8: a body carrying a non-empty string metadata.user_id reaches the adapter
\* with the same metadata.user_id, and no fingerprint, session token or digest
\* is computed for the request.
C8_UserIdUntouched ==
    (AtAdapter /\ InboundCarriesUserId) =>
        /\ OutboundUserId = InboundUserId
        /\ identity = NoIdentity
        /\ hash_calls = 0

\* a body with a user_id that add_tool_prefix has rewritten
C8_Witness ==
    /\ AtAdapter
    /\ InboundCarriesUserId
    /\ ~InboundHaiku
    /\ InboundHas("system")
    /\ final_body # body
    /\ OutboundUserId = JStr("x")

\* the cases C9 lists: metadata absent, user_id absent, user_id present but empty
InboundLacksUserId ==
    \/ ~InboundHas("metadata")
    \/ InboundHas("metadata") /\ InboundUserId = Absent
    \/ InboundUserId = JStr("")

\* C9: a JSON object body (model not haiku) without a non-empty
\* metadata.user_id reaches the adapter with metadata.user_id equal to
\* "user_{fingerprint}_account__session_{uuid}" of the identity pair computed
\* for the request.
C9_UserIdInjected ==
    (AtAdapter /\ InboundObject /\ ~InboundHaiku /\ InboundLacksUserId) =>
        /\ identity # NoIdentity
        /\ OutboundUserId = JStr(UserId(identity.fingerprint, identity.session))

InjectionRewrote ==
    /\ AtAdapter
    /\ identity # NoIdentity
    /\ prefixed_body.kind = "json"
    /\ prefixed_body.val.t = "obj"

KeySeq(kv) == [i \in 1..Len(kv) |-> kv[i].k]

Canonical == {field_order[i] : i \in 1..Len(field_order)}

\* a canonical key the output must hold: one of the input, or metadata
CanonicalPresent(k) == k = "metadata" \/ k \in Keys(prefixed_body.val.kv)

NotCanonical(k) == k \notin Canonical

\* C10: the object identity injection writes holds first the canonical keys
\* present in its input (metadata always) in the canonical order, then every
\* other input key in its input order; no key is lost or duplicated and every
\* value but that of metadata is the input's.
C10_CanonicalOrder ==
    InjectionRewrote =>
        /\ final_body.kind = "json" /\ final_body.val.t = "obj"
        /\ KeySeq(final_body.val.kv) =
              SelectSeq(field_order, CanonicalPresent)
                \o SelectSeq(KeySeq(prefixed_body.val.kv), NotCanonical)
        /\ Cardinality(Keys(final_body.val.kv)) = Len(final_body.val.kv)
        /\ Keys(final_body.val.kv) = Keys(prefixed_body.val.kv) \cup {"metadata"}
        /\ \A k \in Keys(prefixed_body.val.kv) \ {"metadata"} :
              Get(final_body.val, k) = Get(prefixed_body.val, k)

\* unknown keys ahead of canonical ones, metadata missing
C10_Witness ==
    /\ InjectionRewrote
    /\ InboundObject
    /\ KeySeq(body.val.kv) = <<"bar", "foo", "model">>
    /\ KeySeq(final_body.val.kv) = <<"model", "system", "metadata", "bar", "foo">>


----------------------------------------------------------------------------
(* The security guard on its own: validate_url_security applied to a URL.   *)

GuardSchemes == {"http", "https", "ftp"}

\* userinfo: none, a user name and a password, a user name alone
GuardUserinfo == {<<"", FALSE>>, <<"good.com", FALSE>>, <<"user", TRUE>>}

DomainNames ==
    {"example.com", "localhost", "LocalHost", "printer.local", "db.internal",
     "app.localhost", "local", "internal.example.com", "localhost.example.com"}

GuardHosts ==
    {V4Host(o) : o \in Ipv4Addrs} \cup Ipv6Hosts \cup {DomainHost(n) : n \in DomainNames}

\* a URL of a scheme with a host always has one; mailto: has none
GuardUrls ==
    {BadUrl, Url("mailto", "", FALSE, NoHost)}
        \cup {Url(sc, ui[1], ui[2], h) : sc \in GuardSchemes, ui \in GuardUserinfo,
                                         h \in GuardHosts}

InitGuard ==
    /\ pc = "guard"
    /\ target_url \in GuardUrls
    /\ verdict = "none"
    /\ RequestIdle
    /\ FetchIdle /\ SearchIdle /\ ToolIdle

Validate ==
    /\ pc = "guard"
    /\ verdict' = validate_url_security(target_url)
    /\ pc' = "guarded"
    /\ UNCHANGED target_url
    /\ UNCHANGED <<requestVars, fetchVars, searchVars, toolVars>>

NextGuard == Validate

SpecGuard == InitGuard /\ [][NextGuard]_vars

----------------------------------------------------------------------------
(* The security guard's claims.                                            *)

\* the address ranges, by arithmetic on the octets and on the first segment
InRange(x, lo, hi) == lo <= x /\ x <= hi

ForbiddenV4(o) ==
    \/ o[1] = 127                                  \* 127.0.0.0/8
    \/ o[1] = 10                                   \* 10.0.0.0/8
    \/ o[1] = 172 /\ InRange(o[2], 16, 31)         \* 172.16.0.0/12
    \/ o[1] = 192 /\ o[2] = 168                    \* 192.168.0.0/16
    \/ o[1] = 169 /\ o[2] = 254                    \* 169.254.0.0/16
    \/ \A i \in 1..4 : o[i] = 255                  \* broadcast
    \/ \A i \in 1..4 : o[i] = 0                    \* unspecified
    \/ InRange(o[1], 224, 239)                     \* 224.0.0.0/4
    \/ o[1] = 100 /\ InRange(o[2], 64, 127)        \* 100.64.0.0/10

ForbiddenV6(seg) ==
    \/ (\A i \in 1..7 : seg[i] = 0) /\ seg[8] \in {0, 1}   \* ::, ::1
    \/ InRange(seg[1], 65280, 65535)                        \* ff00::/8
    \/ InRange(seg[1], 64512, 65023)                        \* fc00::/7
    \/ InRange(seg[1], 65152, 65215)                        \* fe80::/10

ForbiddenIp(h) ==
    \/ h.kind = "ipv4" /\ ForbiddenV4(h.o)
    \/ h.kind = "ipv6" /\ ForbiddenV6(h.seg)

\* public unicast: outside the forbidden ranges, and of 1.0.0.0 - 223.255.255.255
\* or of 2000::/3
PublicIp(h) ==
    /\ ~ForbiddenIp(h)
    /\ \/ h.kind = "ipv4" /\ InRange(h.o[1], 1, 223)
       \/ h.kind = "ipv6" /\ InRange(h.seg[1], 8192, 16383)

Guarded == pc = "guarded"

HttpUrl == target_url.parses /\ target_url.scheme \in {"http", "https"}

WithoutUserinfo == target_url.username = "" /\ ~target_url.has_password

\* C1: validate_url_security rejects every http/https URL whose host is a
\* literal IP address of a forbidden range (IPv4: loopback, RFC1918, link-local,
\* broadcast, unspecified, multicast, 100.64.0.0/10; IPv6: loopback,
\* unspecified, multicast, fc00::/7, fe80::/10), and accepts every http/https
\* URL without userinfo whose host is a public unicast literal IP.
C1_ForbiddenRejectedPublicAccepted ==
    Guarded /\ HttpUrl =>
        /\ ForbiddenIp(target_url.host) => verdict # "ok"
        /\ WithoutUserinfo /\ PublicIp(target_url.host) => verdict = "ok"

\* what does hold: the claim for IPv4 hosts, and no IPv6 host is rejected
C1_Ipv4Only ==
    Guarded /\ HttpUrl =>
        /\ target_url.host.kind = "ipv4" /\ ForbiddenIp(target_url.host)
              => verdict = IF WithoutUserinfo THEN "private_ip" ELSE "userinfo"
        /\ WithoutUserinfo /\ PublicIp(target_url.host) => verdict = "ok"
        /\ WithoutUserinfo /\ target_url.host.kind = "ipv6" => verdict = "ok"


----------------------------------------------------------------------------
(* read_response_with_limit.  A chunk is the number of its bytes; the      *)
(* stream yields chunks, or an error, and then ends.                       *)

MaxCeiling == 4
MaxChunkLen == 3
MaxChunks == 3

\* the item of a stream that is an error of the transport
StreamError == -1

RECURSIVE Sum(_)
Sum(seq) == IF seq = <<>> THEN 0 ELSE seq[1] + Sum(Tail(seq))

RECURSIVE SeqsUpTo(_, _)
SeqsUpTo(S, n) ==
    IF n = 0 THEN {<<>>}
    ELSE SeqsUpTo(S, n - 1)
            \cup {Append(q, x) : q \in {r \in SeqsUpTo(S, n - 1) : Len(r) = n - 1}, x \in S}

\* the streams: an error ends a stream
Streams(sizes, n) ==
    {q \in SeqsUpTo(sizes \cup {StreamError}, n) :
        \A k \in 1..Len(q) : q[k] = StreamError => k = Len(q)}

\* line 783
exceeds_limit_inclusive(len, chunk, max) == len + chunk >= max

exceeds_limit(len, chunk, max) == len + chunk > max

\* lines 781-787: one turn of the loop
ReadChunk ==
    /\ pc = "reading"
    /\ stream # <<>>
    /\ LET chunk == Head(stream) IN
       /\ consumed' = Append(consumed, chunk)
       /\ stream' = Tail(stream)
       /\ IF chunk = StreamError
          THEN /\ read_result' = "read_error"
               /\ pc' = "read_done"
               /\ UNCHANGED data_len
          ELSE IF exceeds_limit(data_len, chunk, max_size)
          THEN /\ read_result' = "size_limit"
               /\ pc' = "read_done"
               /\ UNCHANGED data_len
          ELSE /\ data_len' = data_len + chunk
               /\ UNCHANGED <<read_result, pc>>
    /\ UNCHANGED max_size
    /\ UNCHANGED <<requestVars, guardVars, searchVars, toolVars>>

\* lines 781, 789: the stream has ended; the bytes are valid UTF-8 or not
ReadEnd ==
    /\ pc = "reading"
    /\ stream = <<>>
    /\ \E valid \in BOOLEAN : read_result' = IF valid THEN "ok" ELSE "utf8_error"
    /\ pc' = "read_done"
    /\ UNCHANGED <<max_size, stream, consumed, data_len>>
    /\ UNCHANGED <<requestVars, guardVars, searchVars, toolVars>>

InitFetch ==
    /\ pc = "reading"
    /\ max_size \in 0..MaxCeiling
    /\ stream \in Streams(0..MaxChunkLen, MaxChunks)
    /\ consumed = <<>>
    /\ data_len = 0
    /\ read_result = "none"
    /\ RequestIdle
    /\ GuardIdle /\ SearchIdle /\ ToolIdle

NextFetch == ReadChunk \/ ReadEnd

SpecFetch == InitFetch /\ [][NextFetch]_vars

----------------------------------------------------------------------------
(* The claims on read_response_with_limit.                                 *)

\* the whole stream, read or not
WholeStream == consumed \o stream

\* the chunks before item k
Before(k) == SubSeq(WholeStream, 1, k - 1)

\* item k is a chunk, no item before it is an error, and adding it takes the
\* running total above the ceiling
Overflows(k) ==
    /\ \A j \in 1..k : WholeStream[j] # StreamError
    /\ Sum(Before(k + 1)) > max_size

\* the first chunk whose addition takes the total above the ceiling
FirstOverflow(k) == Overflows(k) /\ \A j \in 1..(k - 1) : ~Overflows(j)

ReadDone == pc = "read_done"

\* C4: read_response_with_limit returns the size-limit error at the first chunk
\* whose addition would take the running total above the ceiling, without
\* appending that chunk and without reading a later one; the buffer never holds
\* more than the ceiling; a stream of a total size within the ceiling is never
\* rejected for its size.
C4_LimitAtFirstOverflow ==
    /\ data_len <= max_size
    /\ \A k \in 1..Len(WholeStream) :
          FirstOverflow(k) /\ ReadDone =>
              /\ read_result = "size_limit"
              /\ Len(consumed) = k
              /\ data_len = Sum(Before(k))
    /\ read_result = "size_limit" => FirstOverflow(Len(consumed))
    /\ (\A k \in 1..Len(WholeStream) : ~Overflows(k)) => read_result # "size_limit"
    /\ /\ ReadDone
       /\ \A k \in 1..Len(WholeStream) : WholeStream[k] # StreamError
       /\ Sum(WholeStream) <= max_size
       => /\ read_result \in {"ok", "utf8_error"}
          /\ data_len = Sum(WholeStream)
          /\ stream = <<>>

\* a stream is cut at a chunk that is neither its first nor its last
C4_Witness ==
    /\ ReadDone
    /\ read_result = "size_limit"
    /\ Len(consumed) > 1
    /\ stream # <<>>
    /\ data_len > 0

\* a stream of exactly the ceiling is read to its end
C4_WitnessExact ==
    /\ ReadDone
    /\ read_result = "ok"
    /\ data_len = max_size
    /\ max_size > 0


----------------------------------------------------------------------------
(* The local tools.  The log holds, in order, the validations the security *)
(* guard made and the HTTP requests the client sent, each request with its *)
(* outcome.  A search result is given by its URL.                          *)

WebSearch2 == "webSearch2"
ExtractWebPageContent == "extractWebPageContent"

\* str::split: the pieces of s between the occurrences of the character sep
RECURSIVE split(_, _)
split(s, sep) ==
    LET i == find(s, sep) IN
    IF i = 0 THEN <<s>>
    ELSE <<SubSeq(s, 1, i - 1)>> \o split(StrFrom(s, i + 1), sep)

RECURSIVE FirstTool(_)
FirstTool(parts) ==
    IF parts = <<>> THEN None
    ELSE LET key == split(Head(parts), "=")[1] IN
         IF key = WebSearch2 THEN Some(WebSearch2)
         ELSE IF key = ExtractWebPageContent THEN Some(ExtractWebPageContent)
         ELSE FirstTool(Tail(parts))

\* a detection that looks for the names anywhere in the query
detect_local_tool_by_substring(q) ==
    IF ~q.some THEN None
    ELSE IF find(q.v, WebSearch2) # 0 THEN Some(WebSearch2)
    ELSE IF find(q.v, ExtractWebPageContent) # 0 THEN Some(ExtractWebPageContent)
    ELSE None

detect_local_tool(q) == IF ~q.some THEN None ELSE FirstTool(split(q.v, "&"))

MAX_RESPONSE_SIZE == 5 * 1024 * 1024

\* usize is 64 bits wide; the model keeps 30 of them, which is more than any
\* length it builds
UsizeModulus == 2 ^ 30

as_usize(n) == IF n < 0 THEN n + UsizeModulus ELSE n

TavilyEndpoint == Url("https", "", FALSE, DomainHost("api.tavily.com"))
DuckDuckGoEndpoint == Url("https", "", FALSE, DomainHost("html.duckduckgo.com"))

ValidateEvent(u, v) == [ev |-> "validate", url |-> u, verdict |-> v, outcome |-> "", q |-> ""]
RequestEvent(u, outcome, q) ==
    [ev |-> "request", url |-> u, verdict |-> "", outcome |-> outcome, q |-> q]

Err(e) ==
    [ok |-> FALSE, err |-> e, target_url |-> "", headers |-> {}, provider |-> "",
     results |-> <<>>]

\* build_local_response
build_local_response(tool_name, prov, results) ==
    [ok |-> TRUE, err |-> "", target_url |-> "dc-local://" \o tool_name,
     headers |-> {<<"content-type", "application/json">>}, provider |-> prov,
     results |-> results]

Range(f) == {f[i] : i \in DOMAIN f}

\* lines 505-509 and 555-559: an entry of the results, given by its URL and by
\* the provider whose response it was built from
SearchResult(u, from) == [url |-> u, from |-> from]

\* seen_urls
SeenUrls(acc) == {r.url : r \in Range(acc)}

\* lines 499-515 and 548-563: the results of a page join those collected,
\* but for the URLs seen, until max are held
RECURSIVE Merge(_, _, _)
Merge(acc, page, max) ==
    IF page = <<>> THEN acc
    ELSE IF Head(page).url \in SeenUrls(acc) THEN Merge(acc, Tail(page), max)
    ELSE LET pushed == Append(acc, Head(page)) IN
         IF Len(pushed) >= max THEN pushed ELSE Merge(pushed, Tail(page), max)

\* lines 408-411: filter_map(as_str) over the items of the array
string_items(items) ==
    LET strs == SelectSeq(items, IsStr) IN [i \in 1..Len(strs) |-> strs[i].s]

\* a list that falls back on the objective whatever it is
build_queries_always_objective(objective, search_queries) ==
    IF search_queries = <<>> THEN <<objective>> ELSE search_queries

\* lines 415-419
build_queries(objective, search_queries) ==
    IF search_queries = <<>> /\ objective # "" THEN <<objective>> ELSE search_queries


----------------------------------------------------------------------------
(* Inputs of the local tools' specification.                               *)

MaxQueries == 2
MaxPage == 2

ToolQueries ==
    {None, Some(""), Some("webSearch2"), Some("extractWebPageContent"),
     Some("a=1&webSearch2"), Some("extractWebPageContent=1&webSearch2"),
     Some("webSearch2x"), Some("q=webSearch2")}

ToolUrls ==
    {BadUrl,
     Url("http", "", FALSE, V4Host(<<10, 0, 0, 5>>)),
     Url("http", "", FALSE, V4Host(<<127, 0, 0, 1>>)),
     Url("http", "", FALSE, V4Host(<<93, 184, 216, 34>>)),
     Url("http", "", FALSE, V6Host(<<0, 0, 0, 0, 0, 0, 0, 1>>, "::1")),
     Url("https", "", FALSE, DomainHost("example.com")),
     Url("http", "", FALSE, DomainHost("localhost")),
     Url("https", "good.com", FALSE, DomainHost("example.com")),
     Url("ftp", "", FALSE, DomainHost("example.com"))}

ExtractParams ==
    {[json_ok |-> TRUE, url |-> u, objective |-> None, searchQueries |-> None,
      maxResults |-> None] : u \in {None} \cup {Some(x) : x \in ToolUrls}}

SearchParams ==
    {[json_ok |-> TRUE, url |-> None, objective |-> o, searchQueries |-> sq, maxResults |-> m] :
        o \in {None, Some(""), Some("rust tla")},
        sq \in {None, Some(<<JNum(7)>>), Some(<<JNum(7), JStr("q1")>>)}
              \cup {Some(x) : x \in SeqsUpTo({JStr("q1"), JStr("q2")}, MaxQueries)},
        m \in {None, Some(-1), Some(0), Some(1), Some(2)}}

ToolParams == {NoParams} \cup ExtractParams \cup SearchParams

ResultUrls == {"https://a.example/", "https://b.example/"}

\* the results a response of the provider can hold
Pages(from) == SeqsUpTo({SearchResult(u, from) : u \in ResultUrls}, MaxPage)

\* the sizes of the chunks of a fetched page: none, 1 MiB, 4 MiB
ToolChunkSizes == {0, 1024 * 1024, 4 * 1024 * 1024}

InitTool ==
    /\ pc = "dispatch"
    /\ query \in ToolQueries
    /\ params \in ToolParams
    /\ tavily_api_key \in BOOLEAN
    /\ tool = None
    /\ log = <<>>
    /\ result = NoResult
    /\ RequestIdle
    /\ GuardIdle /\ FetchIdle /\ SearchIdle

----------------------------------------------------------------------------
(* process_outgoing_request: the local tools.                              *)

\* lines 951-961; a request that names no tool goes on to the classification
DetectTool ==
    /\ pc = "dispatch"
    /\ tool' = detect_local_tool(query)
    /\ pc' = IF detect_local_tool(query).some THEN "handle" ELSE "start"
    /\ UNCHANGED <<query, params, tavily_api_key, log, result>>
    /\ UNCHANGED <<requestVars, guardVars, fetchVars, searchVars>>

Finish(r) == result' = r /\ pc' = "tool_done"

\* lines 671-677
ExtractParse_skipping_guard ==
    /\ pc = "handle"
    /\ tool = Some(ExtractWebPageContent)
    /\ IF ~params.json_ok
       THEN Finish(Err("json")) /\ UNCHANGED target_url
       ELSE IF ~params.url.some
       THEN Finish(Err("missing_url")) /\ UNCHANGED target_url
       ELSE target_url' = params.url.v /\ pc' = "send" /\ UNCHANGED result
    /\ UNCHANGED <<query, tool, params, tavily_api_key, log, verdict>>
    /\ UNCHANGED <<requestVars, fetchVars, searchVars>>

ExtractParse ==
    /\ pc = "handle"
    /\ tool = Some(ExtractWebPageContent)
    /\ IF ~params.json_ok
       THEN Finish(Err("json")) /\ UNCHANGED target_url
       ELSE IF ~params.url.some
       THEN Finish(Err("missing_url")) /\ UNCHANGED target_url
       ELSE target_url' = params.url.v /\ pc' = "validate" /\ UNCHANGED result
    /\ UNCHANGED <<query, tool, params, tavily_api_key, log, verdict>>
    /\ UNCHANGED <<requestVars, fetchVars, searchVars>>

\* line 680
ExtractValidate_unchecked ==
    /\ pc = "validate"
    /\ verdict' = validate_url_security(target_url)
    /\ log' = Append(log, ValidateEvent(target_url, validate_url_security(target_url)))
    /\ pc' = "send" /\ UNCHANGED result
    /\ UNCHANGED <<query, tool, params, tavily_api_key, target_url>>
    /\ UNCHANGED <<requestVars, fetchVars, searchVars>>

ExtractValidate ==
    /\ pc = "validate"
    /\ verdict' = validate_url_security(target_url)
    /\ log' = Append(log, ValidateEvent(target_url, validate_url_security(target_url)))
    /\ IF validate_url_security(target_url) # "ok"
       THEN Finish(Err("security_rejected"))
       ELSE pc' = "send" /\ UNCHANGED result
    /\ UNCHANGED <<query, tool, params, tavily_api_key, target_url>>
    /\ UNCHANGED <<requestVars, fetchVars, searchVars>>

\* lines 684-697: the request, and what comes of it: no response, a response
\* of a status that is no success, or a response whose body is to be read
ExtractSend ==
    /\ pc = "send"
    /\ \E outcome \in {"transport_error", "status_404", "status_200"} :
          /\ log' = Append(log, RequestEvent(target_url, outcome, ""))
          /\ IF outcome = "transport_error"
             THEN Finish(Err("transport_error")) /\ UNCHANGED <<max_size, stream>>
             ELSE IF outcome # "status_200"
             THEN Finish(Err("http_status")) /\ UNCHANGED <<max_size, stream>>
             ELSE /\ pc' = "reading"
                  /\ max_size' = MAX_RESPONSE_SIZE
                  /\ stream' \in Streams(ToolChunkSizes, MaxChunks)
                  /\ UNCHANGED result
    /\ UNCHANGED <<consumed, data_len, read_result>>
    /\ UNCHANGED <<query, tool, params, tavily_api_key>>
    /\ UNCHANGED <<requestVars, guardVars, searchVars>>

\* lines 697-710
ExtractFinish ==
    /\ pc = "read_done"
    /\ tool = Some(ExtractWebPageContent)
    /\ Finish(IF read_result = "ok"
              THEN build_local_response(ExtractWebPageContent, "local", <<>>)
              ELSE Err(read_result))
    /\ UNCHANGED <<query, tool, params, tavily_api_key, log>>
    /\ UNCHANGED <<requestVars, guardVars, fetchVars, searchVars>>

\* lines 398-446: the queries, the bound and the provider to begin with
SearchParse ==
    /\ pc = "handle"
    /\ tool = Some(WebSearch2)
    /\ IF ~params.json_ok
       THEN Finish(Err("json")) /\ UNCHANGED searchVars
       ELSE LET objective == IF params.objective.some THEN params.objective.v ELSE ""
                search_queries == IF params.searchQueries.some
                                  THEN string_items(params.searchQueries.v)
                                  ELSE <<>>
            IN  /\ queries' = build_queries(objective, search_queries)
                /\ max_results' = as_usize(IF params.maxResults.some THEN params.maxResults.v
                                           ELSE 5)
                /\ provider' = IF tavily_api_key THEN "tavily" ELSE "local-duckduckgo"
                /\ qi' = 1
                /\ all_results' = <<>>
                /\ pc' = "search"
                /\ UNCHANGED result
    /\ UNCHANGED <<query, tool, params, tavily_api_key, log>>
    /\ UNCHANGED <<requestVars, guardVars, fetchVars>>

Searching == pc = "search" /\ qi <= Len(queries) /\ Len(all_results) < max_results

\* a fallback that goes on with the results Tavily gave before it failed
TavilyQuery_keeping_results ==
    /\ Searching
    /\ provider = "tavily"
    /\ \E outcome \in {"transport_error", "status_500", "bad_json", "status_200"},
          page \in Pages("tavily") :
          /\ outcome # "status_200" => page = <<>>
          /\ log' = Append(log, RequestEvent(TavilyEndpoint, outcome, queries[qi]))
          /\ IF outcome # "status_200"
             THEN /\ provider' = "local-duckduckgo"
                  /\ qi' = 1
                  /\ UNCHANGED all_results
             ELSE /\ all_results' = Merge(all_results, page, max_results)
                  /\ qi' = qi + 1
                  /\ UNCHANGED provider
    /\ UNCHANGED <<pc, queries, max_results>>
    /\ UNCHANGED <<query, tool, params, tavily_api_key, result>>
    /\ UNCHANGED <<requestVars, guardVars, fetchVars>>

\* lines 471-517, and 432-437 on an error: one query to Tavily
TavilyQuery ==
    /\ Searching
    /\ provider = "tavily"
    /\ \E outcome \in {"transport_error", "status_500", "bad_json", "status_200"},
          page \in Pages("tavily") :
          /\ outcome # "status_200" => page = <<>>
          /\ log' = Append(log, RequestEvent(TavilyEndpoint, outcome, queries[qi]))
          /\ IF outcome # "status_200"
             THEN /\ provider' = "local-duckduckgo"
                  /\ qi' = 1
                  /\ all_results' = <<>>
             ELSE /\ all_results' = Merge(all_results, page, max_results)
                  /\ qi' = qi + 1
                  /\ UNCHANGED provider
    /\ UNCHANGED <<pc, queries, max_results>>
    /\ UNCHANGED <<query, tool, params, tavily_api_key, result>>
    /\ UNCHANGED <<requestVars, guardVars, fetchVars>>

\* lines 527-564: one query to DuckDuckGo; the status of the response is not
\* looked at
DuckDuckGoQuery ==
    /\ Searching
    /\ provider = "local-duckduckgo"
    /\ \E outcome \in {"transport_error", "body_error", "status_503", "status_200"},
          page \in Pages("local-duckduckgo") :
          /\ outcome \in {"transport_error", "body_error"} => page = <<>>
          /\ log' = Append(log, RequestEvent(DuckDuckGoEndpoint, outcome, queries[qi]))
          /\ IF outcome \in {"transport_error", "body_error"}
             THEN Finish(Err(outcome)) /\ UNCHANGED <<qi, all_results>>
             ELSE /\ all_results' = Merge(all_results, page, max_results)
                  /\ qi' = qi + 1
                  /\ UNCHANGED <<pc, result>>
    /\ UNCHANGED <<queries, max_results, provider>>
    /\ UNCHANGED <<query, tool, params, tavily_api_key>>
    /\ UNCHANGED <<requestVars, guardVars, fetchVars>>

\* lines 519 and 566, 448-459: the loop is over
SearchFinish ==
    /\ pc = "search"
    /\ ~Searching
    /\ Finish(build_local_response(WebSearch2, provider, all_results))
    /\ UNCHANGED <<query, tool, params, tavily_api_key, log>>
    /\ UNCHANGED <<requestVars, guardVars, fetchVars, searchVars>>

NextTool ==
    \/ DetectTool
    \/ ExtractParse
    \/ ExtractValidate
    \/ ExtractSend
    \/ ReadChunk
    \/ ReadEnd
    \/ ExtractFinish
    \/ SearchParse
    \/ TavilyQuery
    \/ DuckDuckGoQuery
    \/ SearchFinish

SpecTool == InitTool /\ [][NextTool]_vars


----------------------------------------------------------------------------
(* The local tools' claims.                                                *)

Requests == {i \in 1..Len(log) : log[i].ev = "request"}

Validations == {i \in 1..Len(log) : log[i].ev = "validate"}

ToolDone == pc = "tool_done"

\* extractWebPageContent is invoked with a params.url the guard rejects
ExtractOfRejectedUrl ==
    /\ tool = Some(ExtractWebPageContent)
    /\ params.json_ok
    /\ params.url.some
    /\ validate_url_security(params.url.v) # "ok"

\* C2: an extractWebPageContent invocation whose params.url the security
\* guard rejects ends with an error result, and sends no HTTP request at any
\* point.
C2_RejectedUrlNoFetch ==
    ExtractOfRejectedUrl =>
        /\ Requests = {}
        /\ pc \in {"handle", "validate", "tool_done"}
        /\ ToolDone => ~result.ok /\ result.err = "security_rejected"

\* http://10.0.0.5/ has been rejected
C2_Witness ==
    /\ ExtractOfRejectedUrl
    /\ ToolDone
    /\ target_url = Url("http", "", FALSE, V4Host(<<10, 0, 0, 5>>))
    /\ verdict = "private_ip"
    /\ Validations # {}

\* request i comes after a validation of the URL it targets
ValidatedBefore(i) ==
    \E j \in Validations : j < i /\ log[j].url = log[i].url

\* C3 as stated: in every local-tool invocation, each HTTP request is preceded
\* by a validation of the URL it targets.
C3_EveryRequestValidated == \A i \in Requests : ValidatedBefore(i)

\* C3: each HTTP request of extractWebPageContent is preceded by a validation
\* that accepted the URL it targets; the requests of webSearch2 target the
\* fixed endpoint of the provider and no validation is made for them.
C3_ExtractValidatedSearchFixed ==
    /\ tool = Some(ExtractWebPageContent) =>
          \A i \in Requests :
              \E j \in Validations :
                  j < i /\ log[j].url = log[i].url /\ log[j].verdict = "ok"
    /\ tool = Some(WebSearch2) =>
          /\ Validations = {}
          /\ \A i \in Requests : log[i].url \in {TavilyEndpoint, DuckDuckGoEndpoint}

\* a page has been requested after its URL was validated
C3_Witness ==
    /\ tool = Some(ExtractWebPageContent)
    /\ Requests # {}
    /\ \A i \in Requests : ValidatedBefore(i)
    /\ ToolDone
    /\ result.ok


----------------------------------------------------------------------------
(* add_tool_prefix on its own, and on its own output.                      *)

ToolNames == {"Read", "mcp_Read", "mcp_", "", "MCP_Read", "mcp", "xmcp_Read", "mcp_mcp_Read"}

NamedTool(n) == JObj(<<Member("name", JStr(n)), Member("description", JStr("d"))>>)

ToolUse(n) == JObj(<<Member("type", JStr("tool_use")), Member("name", JStr(n))>>)

\* a tool_result item: its name is no tool name
ToolResult(n) == JObj(<<Member("type", JStr("tool_result")), Member("name", JStr(n))>>)

AssistantMessage(items) ==
    JObj(<<Member("role", JStr("assistant")), Member("content", JArr(items))>>)

PrefixModels == {JStr("claude-sonnet-4"), JStr("claude-3-5-haiku")}

\* the tools and messages members of the bodies
PrefixTools ==
    {JArr(<<NamedTool(a), NamedTool(b)>>) : a \in ToolNames, b \in {"Read", "mcp_Grep"}}
        \cup {JArr(<<JObj(<<Member("name", JNum(7))>>), JStr("Read"), NamedTool("Grep")>>),
              JObj(<<Member("name", JStr("Read"))>>)}

PrefixMessages ==
    {JArr(<<AssistantMessage(<<ToolUse(a), ToolResult("Read"), TextItem("amp")>>)>>) :
        a \in ToolNames}
        \cup {JArr(<<JObj(<<Member("role", JStr("user")), Member("content", JStr("Read"))>>),
                     JStr("m"),
                     AssistantMessage(<<ToolUse("Glob"), ToolUse("mcp_Glob")>>)>>)}

PrefixBodies ==
    {EmptyBody, GarbageBody, JsonBody(JNull, FALSE), JsonBody(JArr(<<NamedTool("Read")>>), TRUE)}
        \cup {JsonBody(JObj(<<Member("model", m), Member("tools", t)>>), c) :
                 m \in PrefixModels, t \in PrefixTools, c \in BOOLEAN}
        \cup {JsonBody(JObj(<<Member("messages", ms), Member("model", m)>>), TRUE) :
                 m \in PrefixModels, ms \in PrefixMessages}
        \cup {JsonBody(JObj(<<Member("tools", t), Member("messages", ms)>>), TRUE) :
                 t \in PrefixTools, ms \in PrefixMessages}

InitPrefix ==
    /\ pc = "prefix"
    /\ body \in PrefixBodies
    /\ path = "/v1/messages"
    /\ headers = {}
    /\ profiles = AllProfiles
    /\ api_type = Claude
    /\ llm_path = "/v1/messages"
    /\ BodyIdle
    /\ PureIdle
    /\ LocalIdle
    /\ ForwardIdle

\* line 984
Prefix ==
    /\ pc = "prefix"
    /\ prefixed_body' = add_tool_prefix(body)
    /\ pc' = IF add_tool_prefix(body) = Panicked THEN "panicked" ELSE "prefixed_once"
    /\ UNCHANGED routeVars
    /\ UNCHANGED <<final_body, identity, hash_calls>>
    /\ UNCHANGED <<pureVars, forwardVars, localVars>>

\* add_tool_prefix given the body it returned
PrefixAgain ==
    /\ pc = "prefixed_once"
    /\ reprefixed_body' = add_tool_prefix(prefixed_body)
    /\ pc' = IF add_tool_prefix(prefixed_body) = Panicked THEN "panicked" ELSE "prefixed_twice"
    /\ UNCHANGED <<brand_text, sanitized, resanitized, messages_a, messages_b, session_a,
                   session_b>>
    /\ UNCHANGED <<routeVars, bodyVars, forwardVars, localVars>>

NextPrefix == Prefix \/ PrefixAgain

SpecPrefix == InitPrefix /\ [][NextPrefix]_vars


----------------------------------------------------------------------------
(* The claims on the tool-name prefix.                                     *)

\* the position of the member k of the object v
IndexOf(v, k) == CHOOSE j \in 1..Len(v.kv) : v.kv[j].k = k

\* the member k of the object v if it is an array, else the empty array
ArrayMember(v, k) ==
    IF v.t = "obj" /\ k \in Keys(v.kv) /\ v.kv[IndexOf(v, k)].v.t = "arr"
    THEN v.kv[IndexOf(v, k)].v.items
    ELSE <<>>

HasStringName(item) ==
    item.t = "obj" /\ "name" \in Keys(item.kv) /\ item.kv[IndexOf(item, "name")].v.t = "str"

IsToolUse(item) ==
    /\ item.t = "obj" /\ "type" \in Keys(item.kv)
    /\ item.kv[IndexOf(item, "type")].v = JStr("tool_use")

\* the places of a JSON text that hold a tool name: <<i, 0>> for tools[i],
\* <<i, j>> for the tool_use item messages[i].content[j]
NameSlots(val) ==
    {<<i, 0>> : i \in {n \in 1..Len(ArrayMember(val, "tools")) :
                          HasStringName(ArrayMember(val, "tools")[n])}}
    \cup UNION {{<<i, j>> : j \in {n \in 1..Len(ArrayMember(ArrayMember(val, "messages")[i],
                                                         "content")) :
                                    LET item == ArrayMember(ArrayMember(val, "messages")[i],
                                                            "content")[n]
                                    IN  IsToolUse(item) /\ HasStringName(item)}} :
                i \in 1..Len(ArrayMember(val, "messages"))}

NameAt(val, slot) ==
    LET item == IF slot[2] = 0 THEN ArrayMember(val, "tools")[slot[1]]
                ELSE ArrayMember(ArrayMember(val, "messages")[slot[1]], "content")[slot[2]]
    IN  item.kv[IndexOf(item, "name")].v.s

HasPrefix(n) == Len(n) >= 4 /\ SubSeq(n, 1, 4) = "mcp_"

PrefixedOnce == pc \in {"prefixed_once", "prefixed_twice"}

\* the body is one whose names the step visits
InJson == body.kind = "json"

OutJson == prefixed_body.kind = "json"

InHaiku ==
    /\ InJson /\ body.val.t = "obj" /\ "model" \in Keys(body.val.kv)
    /\ body.val.kv[IndexOf(body.val, "model")].v.t = "str"
    /\ contains(to_lowercase(body.val.kv[IndexOf(body.val, "model")].v.s), "haiku")

\* C11 as stated: after add_tool_prefix every tool name starts with mcp_, a
\* name that started with mcp_ is as it was, and a second application changes
\* no tool name.
C11_EveryNamePrefixed ==
    /\ PrefixedOnce /\ InJson =>
          /\ OutJson
          /\ NameSlots(prefixed_body.val) = NameSlots(body.val)
          /\ \A sl \in NameSlots(body.val) :
                /\ HasPrefix(NameAt(prefixed_body.val, sl))
                /\ HasPrefix(NameAt(body.val, sl))
                      => NameAt(prefixed_body.val, sl) = NameAt(body.val, sl)
    /\ pc = "prefixed_twice" /\ InJson =>
          /\ NameSlots(reprefixed_body.val) = NameSlots(prefixed_body.val)
          /\ \A sl \in NameSlots(prefixed_body.val) :
                NameAt(reprefixed_body.val, sl) = NameAt(prefixed_body.val, sl)

\* C11: for a body that declares no haiku model, after add_tool_prefix every
\* tool name starts with mcp_: a name that started with mcp_ is as it was, any
\* other has received the prefix once; for a body that declares a haiku model
\* every name is as it was; a second application changes no tool name.
C11_PrefixedUnlessHaiku ==
    /\ PrefixedOnce /\ InJson =>
          /\ OutJson
          /\ NameSlots(prefixed_body.val) = NameSlots(body.val)
          /\ \A sl \in NameSlots(body.val) :
                LET before == NameAt(body.val, sl)
                    after == NameAt(prefixed_body.val, sl)
                IN  /\ InHaiku => after = before
                    /\ ~InHaiku /\ HasPrefix(before) => after = before
                    /\ ~InHaiku /\ ~HasPrefix(before) => after = "mcp_" \o before
                    /\ ~InHaiku => HasPrefix(after)
    /\ pc = "prefixed_twice" /\ InJson =>
          /\ NameSlots(reprefixed_body.val) = NameSlots(prefixed_body.val)
          /\ \A sl \in NameSlots(prefixed_body.val) :
                NameAt(reprefixed_body.val, sl) = NameAt(prefixed_body.val, sl)

\* names with and without the prefix have gone through the step twice
C11_Witness ==
    /\ pc = "prefixed_twice"
    /\ InJson /\ ~InHaiku
    /\ \E a, b \in NameSlots(body.val) :
          /\ a[2] = 0 /\ b[2] > 0
          /\ NameAt(body.val, a) = "mcp_Read" /\ NameAt(prefixed_body.val, a) = "mcp_Read"
          /\ NameAt(body.val, b) = "Read" /\ NameAt(reprefixed_body.val, b) = "mcp_Read"


----------------------------------------------------------------------------
(* sanitize_brand_text on its own, and on its own output.                  *)

MaxPieces == 3

\* the pieces the texts are made of
BrandPieces == {"amp", "AMP", "open", "code", "Code", "-", " ", "x", "_", "Claude Code"}

RECURSIVE Concat(_)
Concat(parts) == IF parts = <<>> THEN "" ELSE Head(parts) \o Concat(Tail(parts))

BrandTexts == {Concat(q) : q \in SeqsUpTo(BrandPieces, MaxPieces)}

InitBrand ==
    /\ pc = "sanitize"
    /\ brand_text \in BrandTexts
    /\ sanitized = ""
    /\ resanitized = ""
    /\ reprefixed_body = EmptyBody
    /\ messages_a = JNull /\ messages_b = JNull
    /\ session_a = "" /\ session_b = ""
    /\ path = "/" /\ headers = {} /\ body = EmptyBody /\ profiles = AllProfiles
    /\ api_type = NoType /\ llm_path = ""
    /\ BodyIdle
    /\ LocalIdle
    /\ ForwardIdle

\* lines 244, 261
Sanitize ==
    /\ pc = "sanitize"
    /\ sanitized' = sanitize_brand_text(brand_text)
    /\ pc' = "sanitized_once"
    /\ UNCHANGED <<reprefixed_body, brand_text, resanitized, messages_a, messages_b,
                   session_a, session_b>>
    /\ UNCHANGED <<routeVars, bodyVars, forwardVars, localVars>>

\* sanitize_brand_text given the text it returned
SanitizeAgain ==
    /\ pc = "sanitized_once"
    /\ resanitized' = sanitize_brand_text(sanitized)
    /\ pc' = "sanitized_twice"
    /\ UNCHANGED <<reprefixed_body, brand_text, sanitized, messages_a, messages_b,
                   session_a, session_b>>
    /\ UNCHANGED <<routeVars, bodyVars, forwardVars, localVars>>

NextBrand == Sanitize \/ SanitizeAgain

SpecBrand == InitBrand /\ [][NextBrand]_vars

----------------------------------------------------------------------------
(* The claims on the brand sanitization.                                   *)

Letters == "abcdefghijklmnopqrstuvwxyz"

\* a lower-case letter, a digit or the underscore
IsWordChar(c) ==
    \/ \E i \in 1..26 : c = SubSeq(Letters, i, i)
    \/ c \in {"0", "1", "2", "3", "4", "5", "6", "7", "8", "9", "_"}

\* s holds, from position i, the word w as a whole word, in any case
WholeWordAt(s, w, i) ==
    LET sl == to_lowercase(s)
        before == IF i = 1 THEN " " ELSE SubSeq(sl, i - 1, i - 1)
        after == IF i + Len(w) > Len(s) THEN " " ELSE SubSeq(sl, i + Len(w), i + Len(w))
    IN  /\ i + Len(w) - 1 <= Len(s)
        /\ SubSeq(sl, i, i + Len(w) - 1) = w
        /\ ~IsWordChar(before)
        /\ ~IsWordChar(after)

HoldsBrand(s) ==
    \E i \in 1..Len(s), w \in {"opencode", "amp", "ampcode", "amp-code"} : WholeWordAt(s, w, i)

\* C12: sanitize_brand_text(sanitize_brand_text(s)) = sanitize_brand_text(s),
\* and the text it returns holds no whole-word brand match.
C12_SanitizeIdempotent ==
    /\ pc = "sanitized_twice" => resanitized = sanitized
    /\ pc \in {"sanitized_once", "sanitized_twice"} => ~HoldsBrand(sanitized)

\* a text of two brand words has been rewritten, and rewritten again
C12_Witness ==
    /\ pc = "sanitized_twice"
    /\ brand_text = "AMP amp"
    /\ sanitized = "Claude Code Claude Code"
    /\ resanitized = sanitized


----------------------------------------------------------------------------
(* The body transformer for the Codex protocol: lines 1087-1160.           *)

\* Map::remove, which with the order of insertion kept is IndexMap's
\* swap_remove: the last member takes the place of the one removed
swap_remove(v, k) ==
    LET n == Len(v.kv)
        i == CHOOSE j \in 1..n : v.kv[j].k = k
    IN  JObj([j \in 1..(n - 1) |-> IF j = i THEN v.kv[n] ELSE v.kv[j]])

\* lines 1108-1111
IsSystemItem(item) == Get(item, "role") = JStr("system")

HasStrContent(item) == IsStr(Get(item, "content"))

ContentOf(item) == Get(item, "content").s

\* lines 1115-1127
system_content(input) ==
    LET items == SelectSeq(SelectSeq(input.items, IsSystemItem), HasStrContent)
    IN  JoinStrings([i \in 1..Len(items) |-> ContentOf(items[i])], "\n\n")

\* lines 1138-1142
RECURSIVE InsertRest(_, _, _)
InsertRest(obj, i, ordered) ==
    IF i > Len(obj.kv) THEN ordered
    ELSE IF obj.kv[i].k \in {"model", "instructions"}
         THEN InsertRest(obj, i + 1, ordered)
         ELSE InsertRest(obj, i + 1, Set(ordered, obj.kv[i].k, obj.kv[i].v))

\* lines 1130-1143
with_instructions(obj) ==
    LET first == IF HasKey(obj, "model") THEN JObj(<<Member("model", Get(obj, "model"))>>)
                 ELSE JObj(<<>>)
        second == Set(first, "instructions", JStr(system_content(Get(obj, "input"))))
    IN  InsertRest(obj, 1, second)

\* lines 1104-1112
has_system(json) ==
    LET input == Get(json, "input") IN
    /\ input # Absent
    /\ input.t = "arr"
    /\ \E i \in 1..Len(input.items) : IsSystemItem(input.items[i])

\* cleaned_body without the test of its first line
clean_codex_body_unguarded(b) ==
    LET json == IF from_slice(b) = ParseError THEN JObj(<<>>) ELSE from_slice(b)
    IN  Some(to_vec(json))

\* cleaned_body: lines 1087-1160
clean_codex_body(b) ==
    IF b.kind = "empty" THEN None
    ELSE LET json == from_slice(b) IN
         IF json = ParseError THEN None
         ELSE LET dropped == HasKey(json, "max_output_tokens")
                  json_body == IF dropped THEN swap_remove(json, "max_output_tokens") ELSE json
              IN  IF has_system(json_body) THEN Some(to_vec(with_instructions(json_body)))
                  ELSE IF dropped THEN Some(to_vec(json_body))
                  ELSE None


----------------------------------------------------------------------------
(* The headers of the outbound request.  A header map is the set of its    *)
(* <<name, value>> pairs.                                                  *)

\* HeaderMap::remove, insert, get
remove(h, name) == {e \in h : e[1] # name}

insert(h, name, value) == remove(h, name) \cup {<<name, value>>}

\* lines 1026-1034
strip_amp_headers(h) == {e \in h : ~starts_with(e[1], "x-amp-")}

\* str::trim, of spaces
RECURSIVE trim(_)
trim(s) ==
    IF s = "" THEN s
    ELSE IF SubSeq(s, 1, 1) = " " THEN trim(SubSeq(s, 2, Len(s)))
    ELSE IF SubSeq(s, Len(s), Len(s)) = " " THEN trim(SubSeq(s, 1, Len(s) - 1))
    ELSE s

\* the characters of the capability names, in the order of their codes
CharOrder == "-0123456789abcdefghijklmnopqrstuvwxyz"

CharRank(c) == CHOOSE i \in 1..Len(CharOrder) : SubSeq(CharOrder, i, i) = c

\* the order of str, which BTreeSet<String> keeps
RECURSIVE StrLess(_, _)
StrLess(a, b) ==
    IF b = "" THEN FALSE
    ELSE IF a = "" THEN TRUE
    ELSE IF SubSeq(a, 1, 1) # SubSeq(b, 1, 1)
         THEN CharRank(SubSeq(a, 1, 1)) < CharRank(SubSeq(b, 1, 1))
    ELSE StrLess(SubSeq(a, 2, Len(a)), SubSeq(b, 2, Len(b)))

RECURSIVE InOrder(_)
InOrder(S) ==
    IF S = {} THEN <<>>
    ELSE LET least == CHOOSE x \in S : \A y \in S \ {x} : StrLess(x, y)
         IN  <<least>> \o InOrder(S \ {least})

REQUIRED_BETAS == {"oauth-2025-04-20", "interleaved-thinking-2025-05-14"}

\* lines 1049-1072
merge_betas(h) ==
    LET incoming == HeaderValue(h, "anthropic-beta", "")
        parts == split(incoming, ",")
        given == {trim(parts[i]) : i \in 1..Len(parts)} \ {""}
    IN  insert(h, "anthropic-beta", JoinStrings(InOrder(given \cup REQUIRED_BETAS), ","))

\* lines 1075-1081
with_beta(url) ==
    IF contains(url, "beta=true") THEN url
    ELSE IF contains(url, "?") THEN url \o "&beta=true"
    ELSE url \o "?beta=true"

\* extract_model_name
extract_model_name(p, b) ==
    IF find(p, "/models/") > 0
    THEN LET after == StrFrom(p, find(p, "/models/") + 8) IN
         IF find(after, ":") > 0 THEN SubSeq(after, 1, find(after, ":") - 1)
         ELSE IF find(after, "/") > 0 THEN SubSeq(after, 1, find(after, "/") - 1)
         ELSE after
    ELSE IF b.kind = "json" /\ IsStr(Get(b.val, "model")) THEN Get(b.val, "model").s
    ELSE "gemini-2.0-flash"

get_user_agent(t, p, b) ==
    IF t = Claude THEN "claude-cli/2.1.2 (external, cli)"
    ELSE IF t = Codex THEN "codex_cli_rs/0.77.0 (Mac OS 15.7.2; arm64) Apple_Terminal/455.1"
    ELSE "GeminiCLI/0.22.5/" \o extract_model_name(p, b) \o " (darwin; arm64)"

\* lines 1026-1072
claude_headers(h, p, b) ==
    merge_betas(insert(insert(remove(remove(strip_amp_headers(h), "content-length"),
                                     "transfer-encoding"),
                              "user-agent", get_user_agent(Claude, p, b)),
                       "x-app", "cli"))

\* a branch that removes the two headers whether it replaced the body or not
codex_headers_always_removing(h, replaced, p, b) ==
    insert(remove(remove(h, "content-length"), "transfer-encoding"),
           "user-agent", get_user_agent(Codex, p, b))

\* lines 1172-1180
codex_headers(h, replaced, p, b) ==
    insert(IF replaced THEN remove(remove(h, "content-length"), "transfer-encoding") ELSE h,
           "user-agent", get_user_agent(Codex, p, b))

\* lines 1196-1199
gemini_headers(h, p, b) == insert(h, "user-agent", get_user_agent(Gemini, p, b))


----------------------------------------------------------------------------
(* process_outgoing_request: the three protocol branches, to the request   *)
(* they return.  The protocol adapters are no part of the source: a call   *)
(* of one fails, or returns a request of any headers and of a target URL   *)
(* made of its base URL and of the path it is given.                       *)

ForwardPaths ==
    {"/api/provider/anthropic/v1/messages", "/api/provider/openai/v1/responses",
     "/api/provider/google/v1beta/models/gemini-2.0-flash:generateContent"}

ForwardHeaders ==
    {{<<"user-agent", "amp/1.0">>},
     {<<"user-agent", "amp/1.0">>, <<"x-amp-client-type", "cli">>}}

SystemInput(c) == JObj(<<Member("role", JStr("system")), Member("content", c)>>)

UserInput == JObj(<<Member("role", JStr("user")), Member("content", JStr("hi"))>>)

ForwardBodies ==
    {EmptyBody, GarbageBody,
     JsonBody(JNull, TRUE), JsonBody(JNull, FALSE),
     JsonBody(JArr(<<JNum(1)>>), TRUE), JsonBody(JStr("amp"), TRUE), JsonBody(JNum(7), TRUE),
     JsonBody(JTrue, TRUE),
     JsonBody(JObj(<<>>), TRUE),
     JsonBody(JObj(<<Member("model", JStr("claude-3-5-haiku")),
                     Member("tools", JArr(<<NamedTool("Read")>>))>>), FALSE),
     JsonBody(JObj(<<Member("model", JStr("claude-sonnet-4")),
                     Member("metadata", JObj(<<Member("user_id", JStr("u"))>>)),
                     Member("system", JStr("You are amp."))>>), TRUE),
     JsonBody(JObj(<<Member("model", JStr("gpt-5")), Member("input", JArr(<<UserInput>>))>>),
              FALSE),
     JsonBody(JObj(<<Member("max_output_tokens", JNum(9)), Member("model", JStr("gpt-5")),
                     Member("input", JArr(<<UserInput>>)), Member("stream", JTrue)>>), TRUE),
     JsonBody(JObj(<<Member("input", JArr(<<SystemInput(JStr("a")), UserInput,
                                            SystemInput(JStr("")), SystemInput(JNum(1))>>)),
                     Member("instructions", JStr("old")),
                     Member("model", JStr("gpt-5"))>>), TRUE),
     JsonBody(JObj(<<Member("input", JStr("hi")), Member("max_output_tokens", JNull)>>), TRUE)}

\* what an adapter may put in the headers of its request
AdapterHeaders ==
    {<<"x-amp-thread-id", "T-1">>, <<"content-length", "42">>,
     <<"transfer-encoding", "chunked">>,
     <<"anthropic-beta", "oauth-2025-04-20 , context-1m-2025-08-07">>}

AdapterFailure == [ok |-> FALSE, headers |-> {}, url |-> ""]

AdapterResults(p) ==
    {AdapterFailure}
        \cup {[ok |-> TRUE, headers |-> h \cup {<<"authorization", "Bearer k">>},
               url |-> "https://upstream.example" \o p \o q] :
                 h \in SUBSET AdapterHeaders, q \in {"", "?beta=true", "?alt=sse"}}

InitForward ==
    /\ pc = "start"
    /\ path \in ForwardPaths
    /\ headers \in ForwardHeaders
    /\ body \in ForwardBodies
    /\ profiles = AllProfiles
    /\ api_type = NoType
    /\ llm_path = ""
    /\ BodyIdle
    /\ PureIdle
    /\ ForwardIdle
    /\ LocalIdle

\* lines 1087-1161
CodexClean ==
    /\ pc = "routed"
    /\ api_type = Codex
    /\ Codex \in profiles
    /\ cleaned_body' = clean_codex_body(body)
    /\ final_body' = IF clean_codex_body(body).some THEN clean_codex_body(body).v ELSE body
    /\ pc' = "adapter"
    /\ UNCHANGED <<base_headers, base_url, result_headers, result_url>>
    /\ UNCHANGED <<prefixed_body, identity, hash_calls>>
    /\ UNCHANGED <<routeVars, pureVars, localVars>>

\* the request of the adapter, and the one returned
Returned(base, h, url) ==
    IF base.ok
    THEN /\ base_headers' = base.headers
         /\ base_url' = base.url
         /\ result_headers' = h
         /\ result_url' = url
         /\ pc' = "forwarded"
    ELSE /\ pc' = "failed"
         /\ UNCHANGED <<base_headers, base_url, result_headers, result_url>>

\* lines 1015-1083
ClaudeForward ==
    /\ pc = "adapter"
    /\ api_type = Claude
    /\ \E base \in AdapterResults(llm_path) :
          Returned(base, claude_headers(base.headers, path, body), with_beta(base.url))
    /\ UNCHANGED cleaned_body
    /\ UNCHANGED <<routeVars, bodyVars, pureVars, localVars>>

\* lines 1162-1181
CodexForward ==
    /\ pc = "adapter"
    /\ api_type = Codex
    /\ \E base \in AdapterResults(llm_path) :
          Returned(base, codex_headers(base.headers, cleaned_body.some, path, body), base.url)
    /\ UNCHANGED cleaned_body
    /\ UNCHANGED <<routeVars, bodyVars, pureVars, localVars>>

\* lines 1184-1200
GeminiForward ==
    /\ pc = "routed"
    /\ api_type = Gemini
    /\ Gemini \in profiles
    /\ final_body' = body
    /\ \E base \in AdapterResults(llm_path) :
          Returned(base, gemini_headers(base.headers, path, body), base.url)
    /\ UNCHANGED cleaned_body
    /\ UNCHANGED <<prefixed_body, identity, hash_calls>>
    /\ UNCHANGED <<routeVars, pureVars, localVars>>

NextForward ==
    \/ Classify
    \/ RewritePath
    \/ ClaudePrefix
    \/ ClaudeIdentity
    \/ ClaudeForward
    \/ CodexClean
    \/ CodexForward
    \/ GeminiForward

SpecForward == InitForward /\ [][NextForward]_vars


----------------------------------------------------------------------------
(* The claims on the bodies handed to the adapters.                        *)

RoutedToClaudeOrCodex == pc \notin {"start", "classified"} /\ api_type \in {Claude, Codex}

\* the body has been handed to the adapter
HandedOver == pc \in {"adapter", "forwarded", "failed"}

Undecodable == body.kind \in {"empty", "garbage"}

\* C13: for a request routed to the Claude or to the Codex protocol whose body
\* is empty or is no JSON, every mutation is skipped and the body handed to
\* the adapter is the inbound body, byte for byte.
C13_UndecodableBodyUntouched ==
    RoutedToClaudeOrCodex /\ Undecodable =>
        /\ pc # "panicked"
        /\ pc \in {"prefixed", "adapter", "forwarded", "failed"} /\ api_type = Claude
              => prefixed_body = body
        /\ HandedOver =>
              /\ final_body = body
              /\ cleaned_body = None
              /\ identity = NoIdentity
              /\ hash_calls = 0

\* bytes that are no JSON have gone through the Codex branch
C13_Witness ==
    /\ pc = "forwarded"
    /\ api_type = Codex
    /\ body = GarbageBody
    /\ final_body = GarbageBody

\* an empty body has gone through the Claude branch
C13_WitnessClaude ==
    /\ pc = "forwarded"
    /\ api_type = Claude
    /\ body = EmptyBody
    /\ final_body = EmptyBody

\* C14: for every body routed to the Claude or to the Codex protocol, of any
\* shape, the transformer returns a body and processing goes on to the
\* adapter; a mutation that cannot be applied leaves the body as it was.
C14_MutationNeverAborts ==
    RoutedToClaudeOrCodex =>
        /\ pc # "panicked"
        /\ HandedOver => final_body.kind \in {"empty", "garbage", "json"}

\* what holds: the Codex branch hands on a body of any shape, and the Claude
\* branch does for an empty body, bytes that are no JSON, an object and null
C14_ObjectsAndNull ==
    RoutedToClaudeOrCodex /\ pc = "panicked" =>
        /\ api_type = Claude
        /\ body.kind = "json"
        /\ body.val.t \in {"arr", "str", "num", "bool"}


----------------------------------------------------------------------------
(* process_outgoing_request from its first line: the local tools are       *)
(* looked for in the query before the request is classified by its path.   *)

DispatchPaths ==
    {"/api/provider/anthropic/v1/messages", "/api/provider/openai/v1/responses",
     "/api/internal", "/"}

DispatchQueries ==
    ToolQueries \cup
    {Some("webSearch2=1"), Some("extractWebPageContent="), Some("WebSearch2"),
     Some("xwebSearch2&a=extractWebPageContent"), Some("=webSearch2"),
     Some("a&extractWebPageContent=1&b"), Some("webSearch2&extractWebPageContent"),
     Some("my-extractWebPageContent&webSearch2-x=1")}

DispatchParams ==
    {NoParams,
     [json_ok |-> TRUE, url |-> Some(Url("https", "", FALSE, DomainHost("example.com"))),
      objective |-> None, searchQueries |-> None, maxResults |-> None],
     [json_ok |-> TRUE, url |-> None, objective |-> Some("rust tla"),
      searchQueries |-> None, maxResults |-> Some(1)]}

InitDispatch ==
    /\ pc = "dispatch"
    /\ path \in DispatchPaths
    /\ query \in DispatchQueries
    /\ params \in DispatchParams
    /\ tavily_api_key \in BOOLEAN
    /\ headers = {}
    /\ body = EmptyBody
    /\ profiles = AllProfiles
    /\ api_type = NoType
    /\ llm_path = ""
    /\ BodyIdle /\ PureIdle /\ ForwardIdle
    /\ tool = None
    /\ log = <<>>
    /\ result = NoResult
    /\ GuardIdle /\ FetchIdle /\ SearchIdle

NextDispatch ==
    \/ DetectTool
    \/ ExtractParse
    \/ ExtractValidate
    \/ ExtractSend
    \/ ReadChunk
    \/ ReadEnd
    \/ ExtractFinish
    \/ SearchParse
    \/ TavilyQuery
    \/ DuckDuckGoQuery
    \/ SearchFinish
    \/ Classify
    \/ ForwardToAmp
    \/ RewritePath

SpecDispatch == InitDispatch /\ [][NextDispatch]_vars

----------------------------------------------------------------------------
(* The claim on the dispatch of the local tools.                           *)

LocalTools == {WebSearch2, ExtractWebPageContent}

CharAt(s, i) == SubSeq(s, i, i)

\* s[a..b] is one of the pieces of s that the character & delimits
IsToken(s, a, b) ==
    /\ a <= b
    /\ a = 1 \/ CharAt(s, a - 1) = "&"
    /\ b = Len(s) \/ CharAt(s, b + 1) = "&"
    /\ \A k \in a..b : CharAt(s, k) # "&"

\* the key of the piece s[a..b], what stands before its first =, is name
KeyIs(s, a, b, name) ==
    LET e == a + Len(name) - 1 IN
    /\ e <= b
    /\ SubSeq(s, a, e) = name
    /\ e = b \/ CharAt(s, e + 1) = "="

NamesTool(q, name) ==
    /\ q.some
    /\ \E a, b \in 1..Len(q.v) : IsToken(q.v, a, b) /\ KeyIs(q.v, a, b, name)

Dispatched == pc # "dispatch"

ClassifiedOrForwarded ==
    \/ pc \in {"start", "classified", "forwarded_amp", "routed"}
    \/ api_type # NoType
    \/ llm_path # ""

\* C15: a request is handled as a local tool exactly when a token of its
\* query, delimited by &, has a key equal to webSearch2 or
\* extractWebPageContent; the tool handling it is one the query names so; a
\* request so handled is, whatever its path, neither classified nor
\* forwarded, and a request that names no tool sends nothing and goes on to
\* the classification; every successful result of a tool has the target URL
\* dc-local://{toolName} and the header content-type: application/json.
C15_LocalToolDispatch ==
    Dispatched =>
        /\ tool.some <=> \E name \in LocalTools : NamesTool(query, name)
        /\ tool.some => tool.v \in LocalTools /\ NamesTool(query, tool.v)
        /\ tool.some => ~ClassifiedOrForwarded
        /\ ~tool.some => log = <<>> /\ result = NoResult /\ pc # "tool_done"
        /\ result.ok =>
              /\ tool.some
              /\ result.target_url = "dc-local://" \o tool.v
              /\ result.headers = {<<"content-type", "application/json">>}

\* a search named by the second token of the query of a request on the path
\* of a provider ends with a local result
C15_Witness ==
    /\ pc = "tool_done"
    /\ result.ok
    /\ query = Some("a=1&webSearch2")
    /\ path = "/api/provider/anthropic/v1/messages"
    /\ result.target_url = "dc-local://webSearch2"

\* a query that holds a tool's name inside a longer key goes on to the router
C15_WitnessSubstring ==
    /\ query = Some("my-extractWebPageContent&webSearch2-x=1")
    /\ pc = "routed"
    /\ result = NoResult


----------------------------------------------------------------------------
(* The claims on webSearch2: the providers and the bound on the results.   *)

TavilyRequests == {i \in Requests : log[i].url = TavilyEndpoint}

DuckDuckGoRequests == {i \in Requests : log[i].url = DuckDuckGoEndpoint}

Succeeded(i) == log[i].outcome = "status_200"

PrimaryFailed == \E i \in TavilyRequests : ~Succeeded(i)

SearchCalled == tool = Some(WebSearch2)

SearchReturned == SearchCalled /\ pc = "tool_done" /\ result.ok

\* C16: with a Tavily key configured Tavily is asked first and DuckDuckGo
\* only after a request to Tavily failed, whichever query it was for; Tavily
\* is not asked again after a failure and DuckDuckGo starts again from the
\* first query; with no key configured Tavily is never asked.  The provider
\* of a returned result is "tavily" exactly when a key is configured and no
\* request to Tavily failed, and "local-duckduckgo" otherwise, and every
\* entry of the results was built from a response of that provider.
C16_ProviderSelection ==
    SearchCalled =>
        /\ ~tavily_api_key => TavilyRequests = {}
        /\ tavily_api_key =>
              \A i \in DuckDuckGoRequests : \E j \in TavilyRequests : j < i /\ ~Succeeded(j)
        /\ \A i \in TavilyRequests : ~Succeeded(i) => \A j \in TavilyRequests : j <= i
        /\ \A i \in DuckDuckGoRequests :
              (\A j \in DuckDuckGoRequests : i <= j) => log[i].q = queries[1]
        /\ SearchReturned =>
              /\ result.provider \in {"tavily", "local-duckduckgo"}
              /\ result.provider = "tavily" <=> tavily_api_key /\ ~PrimaryFailed
              /\ \A r \in Range(result.results) : r.from = result.provider

\* Tavily answered the first query and failed on the second; the results
\* returned are DuckDuckGo's
C16_Witness ==
    /\ SearchReturned
    /\ tavily_api_key
    /\ Len(log) >= 3
    /\ log[1].url = TavilyEndpoint /\ Succeeded(1)
    /\ log[2].url = TavilyEndpoint /\ log[2].outcome = "status_500"
    /\ result.provider = "local-duckduckgo"
    /\ result.results # <<>>

\* C17: a request to DuckDuckGo that fails, by a transport error or by a
\* status that is no success, ends the call with an error: no ok result is
\* returned and no request follows the failed one.
C17_SecondaryFailureFatal ==
    SearchCalled =>
        \A i \in DuckDuckGoRequests :
            ~Succeeded(i) => /\ i = Len(log)
                             /\ pc = "tool_done"
                             /\ ~result.ok

\* what the code does keep of it: an error of the transport, while sending
\* or while reading the body, ends the call with an error
C17_TransportErrorFatal ==
    SearchCalled =>
        \A i \in DuckDuckGoRequests :
            log[i].outcome \in {"transport_error", "body_error"} =>
                /\ i = Len(log)
                /\ pc = "tool_done"
                /\ ~result.ok

\* params.maxResults, 5 when absent
MaxResultsAsked == IF params.maxResults.some THEN params.maxResults.v ELSE 5

DistinctUrls(results) == \A i, j \in 1..Len(results) : results[i].url = results[j].url => i = j

Bounded(results) == Len(results) <= MaxResultsAsked /\ DistinctUrls(results)

\* a step that sends a search request
SearchCall == SearchCalled /\ Len(log') = Len(log) + 1

\* C20: for every maxResults, 5 when absent, the results returned are at most
\* maxResults, no two of them have the same URL, and no search request is
\* sent once maxResults results are collected, with Tavily and with
\* DuckDuckGo.
C20_ResultBounding ==
    /\ [](SearchReturned => Bounded(result.results))
    /\ [][SearchCall => Len(all_results) < MaxResultsAsked \/ MaxResultsAsked < 0]_vars

\* what holds of it: the bound is kept for every maxResults that is not
\* negative, the URLs are distinct and the requests stop for every maxResults
C20_BoundedUnlessNegative ==
    /\ [](SearchReturned =>
            /\ DistinctUrls(result.results)
            /\ MaxResultsAsked >= 0 => Len(result.results) <= MaxResultsAsked)
    /\ [][SearchCall => Len(all_results) < MaxResultsAsked \/ MaxResultsAsked < 0]_vars


----------------------------------------------------------------------------
(* generate_session_uuid on two messages values, each call with a random   *)
(* UUID of its own at hand.                                                *)

MaxMessages == 4

TextHi == JObj(<<Member("content", JStr("hi"))>>)

PartsHi ==
    JObj(<<Member("role", JStr("user")),
           Member("content",
                  JArr(<<JObj(<<Member("type", JStr("text")), Member("text", JStr("h"))>>),
                         JObj(<<Member("type", JStr("image")), Member("text", JStr("x"))>>),
                         JObj(<<Member("type", JStr("text")), Member("text", JStr("i"))>>)>>))>>)

NoContent == JObj(<<Member("role", JStr("user"))>>)

TextEmpty == JObj(<<Member("content", JStr(""))>>)

\* one value has its text in string contents, the other in array contents
SessionMessages(with_text) == {with_text, NoContent, TextEmpty}

SessionInputs(with_text) ==
    {JNull, JStr("hi")} \cup
    {JArr(items) : items \in SeqsUpTo(SessionMessages(with_text), MaxMessages)}

InitSession ==
    /\ pc = "session"
    /\ messages_a \in SessionInputs(TextHi)
    /\ messages_b \in SessionInputs(PartsHi)
    /\ session_a = ""
    /\ session_b = ""
    /\ reprefixed_body = EmptyBody
    /\ brand_text = ""
    /\ sanitized = ""
    /\ resanitized = ""
    /\ path = "/"
    /\ headers = {}
    /\ body = EmptyBody
    /\ profiles = AllProfiles
    /\ api_type = NoType
    /\ llm_path = ""
    /\ BodyIdle /\ ForwardIdle
    /\ LocalIdle

\* lines 822-872, once for each value
Session ==
    /\ pc = "session"
    /\ \E random_a, random_b \in RandomUuids :
          /\ session_a' = generate_session_uuid(messages_a, random_a)
          /\ session_b' = generate_session_uuid(messages_b, random_b)
    /\ pc' = "tokens"
    /\ UNCHANGED <<messages_a, messages_b, reprefixed_body, brand_text, sanitized, resanitized>>
    /\ UNCHANGED <<routeVars, bodyVars, forwardVars, localVars>>

NextSession == Session

SpecSession == InitSession /\ [][NextSession]_vars

----------------------------------------------------------------------------
(* The claim on the session token.                                         *)

Min(a, b) == IF a < b THEN a ELSE b

\* the positions of the first three messages
FirstThree(messages) ==
    IF messages.t = "arr" THEN 1..Min(3, Len(messages.items)) ELSE {}

\* the first three messages of the two values have the same extracted text,
\* one by one
SameText(a, b) ==
    /\ FirstThree(a) = FirstThree(b)
    /\ \A i \in FirstThree(a) : MessageText(a.items[i]) = MessageText(b.items[i])

\* those of the first three messages that have a text
WithText(messages) == {i \in FirstThree(messages) : IsPresent(MessageText(messages.items[i]))}

\* the texts joined by | make the empty string: there is no text, or one
\* text that is empty
JoinedEmpty(messages) ==
    \/ WithText(messages) = {}
    \/ /\ Cardinality(WithText(messages)) = 1
       /\ \A i \in WithText(messages) : MessageText(messages.items[i]) = JStr("")

IsDigestToken(t) == starts_with(t, "uuid(sha256(")

\* C19: two messages values whose first three messages have the same
\* extracted text get the same token, a digest in the UUID grouping, when
\* the joined text is not empty, whatever follows the third message; when the
\* joined text is empty the token is the random UUID generated in the call
\* and no digest.
C19_SessionDeterministic ==
    pc = "tokens" =>
        /\ SameText(messages_a, messages_b) /\ ~JoinedEmpty(messages_a) =>
              session_a = session_b /\ IsDigestToken(session_a)
        /\ JoinedEmpty(messages_a) => session_a \in RandomUuids
        /\ JoinedEmpty(messages_b) => session_b \in RandomUuids
        /\ ~JoinedEmpty(messages_a) => IsDigestToken(session_a)
        /\ ~JoinedEmpty(messages_b) => IsDigestToken(session_b)

\* a string content and the same text in two items of an array content, with
\* different fourth messages
C19_Witness ==
    /\ pc = "tokens"
    /\ messages_a = JArr(<<TextHi, NoContent, TextEmpty, TextHi>>)
    /\ messages_b = JArr(<<PartsHi, NoContent, TextEmpty, TextEmpty>>)
    /\ session_a = session_b
    /\ session_a = UuidShape(Sha256Hex("hi|"))

\* two values with no text get the random tokens of their calls
C19_WitnessRandom ==
    /\ pc = "tokens"
    /\ messages_a = JArr(<<NoContent>>)
    /\ messages_b = JArr(<<NoContent>>)
    /\ session_a = "uuid4-a"
    /\ session_b = "uuid4-b"


----------------------------------------------------------------------------
(* The claim on the headers of the request returned.                       *)

AmpHeaders(h) == {e \in h : starts_with(e[1], "x-amp-")}

\* C18: the request returned for a request forwarded by any of the three
\* protocols has no header whose name starts with x-amp-, whatever headers
\* the inbound request and the request of the adapter had.
C18_NoAmpHeaderForwarded == pc = "forwarded" => AmpHeaders(result_headers) = {}

\* what the code does keep of it: the Claude branch removes those headers,
\* and the two other branches return the ones the adapter left
C18_ClaudeStripsOthersKeep ==
    pc = "forwarded" =>
        AmpHeaders(result_headers) = IF api_type = Claude THEN {} ELSE AmpHeaders(base_headers)


----------------------------------------------------------------------------
(* The claim on the queries of webSearch2.                                 *)

\* the strings among the items of params.searchQueries, in their order
RECURSIVE StringsOf(_)
StringsOf(items) ==
    IF items = <<>> THEN <<>>
    ELSE IF Head(items).t = "str" THEN <<Head(items).s>> \o StringsOf(Tail(items))
    ELSE StringsOf(Tail(items))

QueriesGiven == IF params.searchQueries.some THEN StringsOf(params.searchQueries.v) ELSE <<>>

\* params.objective, the empty string when it is absent
ObjectiveGiven == IF params.objective.some THEN params.objective.v ELSE ""

QueriesBuilt == SearchCalled /\ params.json_ok /\ pc \in {"search", "tool_done"}

\* C21: the queries searched are those of params.searchQueries when it holds
\* a string, and otherwise the one-element list of params.objective, for
\* every combination of present, absent and empty objective and
\* searchQueries.
C21_QuerySet ==
    QueriesBuilt =>
        queries = IF QueriesGiven # <<>> THEN QueriesGiven ELSE <<ObjectiveGiven>>

\* C21, amended: the queries searched are those of params.searchQueries when
\* it holds a string, otherwise the one-element list of params.objective
\* when the objective is a string that is not empty, and otherwise no query
\* at all.
C21_QuerySetUnlessNoObjective ==
    QueriesBuilt =>
        queries = IF QueriesGiven # <<>> THEN QueriesGiven
                  ELSE IF ObjectiveGiven # "" THEN <<ObjectiveGiven>>
                  ELSE <<>>

\* an empty objective and an array without a string: nothing is searched and
\* the call returns no result
C21_Witness ==
    /\ SearchReturned
    /\ params.objective = Some("")
    /\ params.searchQueries = Some(<<JNum(7)>>)
    /\ queries = <<>>
    /\ log = <<>>
    /\ result.results = <<>>

\* the objective is searched when the array gives no string
C21_WitnessObjective ==
    /\ QueriesBuilt
    /\ params.objective = Some("rust tla")
    /\ params.searchQueries = Some(<<JNum(7)>>)
    /\ queries = <<"rust tla">>


----------------------------------------------------------------------------
(* process_outgoing_request: the Codex branch on bodies of every order of  *)
(* their keys.                                                             *)

MaxCodexKeys == 4

CodexPath == "/api/provider/openai/v1/responses"

CodexKeys == {"model", "max_output_tokens", "input", "stream", "instructions"}

\* the orders of up to MaxCodexKeys different keys
CodexKeySeqs ==
    {ks \in SeqsUpTo(CodexKeys, MaxCodexKeys) :
        \A i, j \in 1..Len(ks) : ks[i] = ks[j] => i = j}

CodexInputs ==
    {JStr("hi"), JArr(<<>>), JArr(<<UserInput>>),
     JArr(<<SystemInput(JStr("a"))>>),
     JArr(<<SystemInput(JNum(1))>>),
     JArr(<<SystemInput(JStr("a")), UserInput, SystemInput(JStr("")), SystemInput(JNum(1)),
            SystemInput(JStr("b"))>>)}

CodexValue(k, input) ==
    CASE k = "model" -> JStr("gpt-5")
      [] k = "max_output_tokens" -> JNum(9)
      [] k = "input" -> input
      [] k = "stream" -> JTrue
      [] k = "instructions" -> JStr("old")

CodexBodies ==
    ForwardBodies \cup
    {JsonBody(JObj([i \in 1..Len(ks) |-> Member(ks[i], CodexValue(ks[i], input))]), FALSE) :
        ks \in CodexKeySeqs, input \in CodexInputs}

InitCodex ==
    /\ pc = "start"
    /\ path = CodexPath
    /\ headers \in ForwardHeaders
    /\ body \in CodexBodies
    /\ profiles = AllProfiles
    /\ api_type = NoType
    /\ llm_path = ""
    /\ BodyIdle
    /\ PureIdle
    /\ ForwardIdle
    /\ LocalIdle

NextCodex ==
    \/ Classify
    \/ RewritePath
    \/ CodexClean
    \/ CodexForward

SpecCodex == InitCodex /\ [][NextCodex]_vars


----------------------------------------------------------------------------
(* The claims on the Codex branch.                                         *)

CodexHanded == api_type = Codex /\ HandedOver

InboundJson == from_slice(body)

HasSystemRole(item) == Get(item, "role") = JStr("system")

\* the body is an object whose input is an array with an item of role system
SystemBody ==
    /\ InboundObject
    /\ Get(InboundJson, "input").t = "arr"
    /\ \E i \in 1..Len(Get(InboundJson, "input").items) :
          HasSystemRole(Get(InboundJson, "input").items[i])

\* the string contents of the items of role system, in the order of the input
RECURSIVE SystemTexts(_)
SystemTexts(items) ==
    IF items = <<>> THEN <<>>
    ELSE IF HasSystemRole(Head(items)) /\ Get(Head(items), "content").t = "str"
         THEN <<Get(Head(items), "content").s>> \o SystemTexts(Tail(items))
    ELSE SystemTexts(Tail(items))

RECURSIVE BlankLineJoined(_)
BlankLineJoined(texts) ==
    IF texts = <<>> THEN ""
    ELSE IF Len(texts) = 1 THEN texts[1]
    ELSE texts[1] \o "\n\n" \o BlankLineJoined(Tail(texts))

IsOtherKey(k) == k \notin {"model", "instructions", "max_output_tokens"}

\* model, instructions, then the other keys of the inbound body as they stand
ExpectedKeys ==
    (IF HasKey(InboundJson, "model") THEN <<"model">> ELSE <<>>)
        \o <<"instructions">> \o SelectSeq(KeySeq(InboundJson.kv), IsOtherKey)

OutboundJson == from_slice(final_body)

InstructionsSynthesized ==
    /\ cleaned_body.some
    /\ final_body = cleaned_body.v
    /\ OutboundJson.t = "obj"
    /\ Get(OutboundJson, "instructions")
          = JStr(BlankLineJoined(SystemTexts(Get(InboundJson, "input").items)))
    /\ ~HasKey(OutboundJson, "max_output_tokens")
    /\ \A k \in Keys(OutboundJson.kv) \ {"instructions"} :
          Get(OutboundJson, k) = Get(InboundJson, k)

\* C22: for a body that is an object whose input array has an item of role
\* system, the body handed to the Codex adapter has the instructions made of
\* the contents of the items of role system, in their order, joined by a
\* blank line; its keys are model, instructions, then every other key of the
\* inbound body but model in their inbound order; max_output_tokens is
\* absent, and every other value is the inbound one.
C22_InstructionsSynthesis ==
    CodexHanded /\ SystemBody =>
        InstructionsSynthesized /\ KeySeq(OutboundJson.kv) = ExpectedKeys

\* what the code does keep of it: the instructions, the values and the keys
\* as a set, and the order of the keys when the inbound body has no
\* max_output_tokens or has it as its last key
C22_OrderKeptUnlessTokensRemoved ==
    CodexHanded /\ SystemBody =>
        /\ InstructionsSynthesized
        /\ Keys(OutboundJson.kv) = Range(ExpectedKeys)
        /\ \/ KeySeq(OutboundJson.kv) = ExpectedKeys
           \/ /\ HasKey(InboundJson, "max_output_tokens")
              /\ KeySeq(InboundJson.kv)[Len(InboundJson.kv)] # "max_output_tokens"


\* what makes the Codex branch write a body of its own
CodexTrigger == (InboundObject /\ HasKey(InboundJson, "max_output_tokens")) \/ SystemBody

LengthHeaders(h) == {e \in h : e[1] \in {"content-length", "transfer-encoding"}}

\* C23: the body handed to the Codex adapter differs from the inbound body
\* only if the inbound body had max_output_tokens or an input item of role
\* system, and is the inbound body byte for byte when it had neither; the
\* request returned has lost content-length and transfer-encoding exactly
\* when the body was replaced, and has them as the adapter set them
\* otherwise.
C23_ChangeGating ==
    CodexHanded =>
        /\ final_body # body => CodexTrigger
        /\ cleaned_body.some => CodexTrigger /\ final_body = cleaned_body.v
        /\ ~CodexTrigger => final_body = body /\ ~cleaned_body.some
        /\ pc = "forwarded" =>
              LengthHeaders(result_headers)
                  = IF cleaned_body.some THEN {} ELSE LengthHeaders(base_headers)

\* a body with neither is handed over as it came, and the headers of the
\* adapter's request are returned
C23_Witness ==
    /\ CodexHanded
    /\ pc = "forwarded"
    /\ InboundObject
    /\ HasKey(InboundJson, "input")
    /\ ~CodexTrigger
    /\ final_body = body
    /\ LengthHeaders(base_headers) = {<<"content-length", "42">>, <<"transfer-encoding", "chunked">>}
    /\ LengthHeaders(result_headers) = LengthHeaders(base_headers)

\* a body that had max_output_tokens is replaced, and the two headers of the
\* adapter's request are removed
C23_WitnessReplaced ==
    /\ CodexHanded
    /\ pc = "forwarded"
    /\ HasKey(InboundJson, "max_output_tokens")
    /\ ~SystemBody
    /\ final_body # body
    /\ LengthHeaders(base_headers) # {}
    /\ LengthHeaders(result_headers) = {}

============================================================================
